---------------------------- MODULE Spec2Model ----------------------------
(***************************************************************************)
(* State-machine model of the retrieval-augmented chat backend             *)
(* (api_asistenteVirtualZeep):                                             *)
(*   - the chat turn       app/services/chat_orchestrator.py, llm.py       *)
(*   - document ingestion  app/routers/documents.py,                       *)
(*                         app/services/document_processor.py, rag.py      *)
(*   - vector search       app/services/rag.py                             *)
(*                                                                         *)
(* The database is PostgreSQL reached through one AsyncSession per request *)
(* (app/database.py, autoflush off, no commit in get_db).  The model keeps *)
(* the committed rows apart from each session's flushed-but-uncommitted    *)
(* rows: flush() moves nothing into the committed rows, commit() does, and *)
(* rollback() or close() drops the session's rows.                         *)
(***************************************************************************)
EXTENDS Integers, Sequences, FiniteSets, TLC

(***************************************************************************)
(* Bounds of the model.                                                    *)
(***************************************************************************)
MaxUsers == 2
\* user ids 1..MaxUsers (serial primary keys start at 1)

MaxFragments == 1
\* text fragments one provider stream produces at most

MaxChunks == 3
\* chunks the vector index of the search specification holds

None == 0 - 1
\* Python's None where an id is expected (ids are >= 0)

Users == 1 .. MaxUsers

Turns == {1, 2}
\* two chat requests, each with its own session, in any interleaving

REFUSAL == "Lo siento, no encontre informacion sobre eso en los documentos disponibles."
\* llm.py:37, the fixed refusal fragment

NO_KEY == "Error: Gemini API key not configured"
\* llm.py:42

PROVIDER_ERROR == "Error: provider"
\* llm.py:107, f"Error: {str(e)}"

RAGService_top_k == 5
\* rag.py:230, retrieve_context(top_k=5)

VARIABLES
    \* ---- vector index (committed rows joined as the search query joins them)
    index,          \* set of [id, owner, filename, content, dist, emb]: chunk, owner
                    \* and filename of its document, its text, cosine distance to
                    \* the query vector, has an Embedding row
    \* ---- one call of search_similar_chunks
    s_user, s_top_k,    \* its user_id and top_k arguments
    s_result,           \* the list it returned
    s_called,
    s_raised,           \* its query raised and the except branch returned []
    s_context,          \* what retrieve_context made of the list
    s_assembled,
    \* ---- chat: committed rows
    conversations,  \* set of [id, user_id, title, updated]
    messages,       \* set of [id, conversation_id, role, content, turn]
    nextConvId, nextMsgId,
    client,         \* LLMService.client is configured (llm.py:16-23)
    \* ---- chat: one turn (one session, one stream_chat_response generator) each
    t_pc, t_user, t_convArg, t_useRag,
    t_conv,         \* conversation.id resolved for the turn, or None
    t_session,      \* rows the session has flushed and not committed
    t_ctx,          \* rag_context: None or the retrieved chunks, in order
    t_gen,          \* position of the stream_chat generator
    t_content,      \* assistant_content, as the sequence of fragments added
    t_events,       \* events the generator has yielded
    t_calls,        \* calls made to the generation provider
    t_commits,      \* db.commit() calls the turn has made
    t_created,      \* the turn added a new conversation
    t_rag,          \* how retrieve_context went: off, ok, embedding_failed, search_failed
    t_exc,          \* the exception that reached the try block, or "none"
    t_tx,           \* the session's transaction: none, open, aborted (a statement
                    \* failed in it), committed, rolled_back, closed (dropped by close())
    \* ---- ingestion: committed rows of the document and what derives from it
    docStatus,      \* Document.status
    docText,        \* what _extract_text returns for the document's file
    chunkRows,      \* set of [id, document_id, chunk_index, content]
    embRows,        \* set of [id, chunk_id]
    nextChunkId, nextEmbId,
    docLock,        \* the request whose open transaction has updated the Document row
    \* ---- ingestion: one ingest request (one session) each
    r_pc, r_doc,
    r_status,       \* document.status as the request's session object holds it
    r_txStatus,     \* the status its open transaction has written, or "unwritten"
    r_delChunks, r_delEmb,  \* ids of the rows its open transaction has deleted
    r_newChunks, r_newEmb,  \* rows its open transaction has inserted
    r_chunks,       \* the list _create_chunks returned
    r_failing,      \* chunk_index of the chunks whose create_embedding raised
    r_added,        \* chunk ids of the Embedding objects added, not yet flushed
    r_exc,          \* the exception process_document raised, or "none"
    r_result,       \* (chunks_created, embeddings_created), or <<None, None>>
    \* ---- one call of _create_chunks, iteration by iteration
    k_text, k_L, k_O,   \* its text, self.chunk_size and self.chunk_overlap
    k_start, k_index,   \* the locals start and chunk_index
    k_chunks,           \* the local list chunks
    k_pc,
    \* ---- one call of LLMService.stream_chat that reaches the provider
    g_stream,       \* the chunk.text values the provider's response iterates over
    g_raises,       \* the provider raises after that many of them, or None
    g_pos,          \* how many of them the worker has taken
    g_wpc,          \* position of the worker thread
    g_ready,        \* queue.put coroutines handed to the event loop, not yet run
    g_queue,        \* the asyncio.Queue
    g_yielded,      \* what stream_chat has yielded
    g_cpc,          \* position of the consuming generator
    \* ---- what one authenticated turn hands to the generation provider
    p_stored,       \* the conversation's messages the session sees, oldest first
    p_user_message, \* content of the turn's user_message
    p_messages,     \* the list messages passed to stream_chat
    p_last_user_message, p_history,     \* stream_chat's locals of those names
    p_contents,     \* full_prompt, the contents given to generate_content_stream
    p_pc

indexVars == <<index>>

searchVars == <<s_user, s_top_k, s_result, s_called, s_raised, s_context, s_assembled>>

ingestVars == <<docStatus, docText, chunkRows, embRows, nextChunkId, nextEmbId, docLock,
                r_pc, r_doc, r_status, r_txStatus, r_delChunks, r_delEmb, r_newChunks,
                r_newEmb, r_chunks, r_failing, r_added, r_exc, r_result>>

chatVars == <<conversations, messages, nextConvId, nextMsgId, client, t_pc, t_user,
              t_convArg, t_useRag, t_conv, t_session, t_ctx, t_gen, t_content,
              t_events, t_calls, t_commits, t_created, t_rag, t_exc, t_tx>>

chunkVars == <<k_text, k_L, k_O, k_start, k_index, k_chunks, k_pc>>

llmVars == <<g_stream, g_raises, g_pos, g_wpc, g_ready, g_queue, g_yielded, g_cpc>>

promptVars == <<p_stored, p_user_message, p_messages, p_last_user_message, p_history,
                p_contents, p_pc>>

vars == <<indexVars, searchVars, chatVars, ingestVars, chunkVars, llmVars, promptVars>>

(***************************************************************************)
(* Vector search, rag.py.                                                  *)
(***************************************************************************)
Truthy(user_id) == user_id # None /\ user_id # 0
\* Python truth of an Optional[int], as `if user_id:` tests it

Eligible_nofilter(idx, user_id) == {c \in idx : c.emb}

Eligible(idx, user_id) ==
    {c \in idx : c.emb /\ (Truthy(user_id) => c.owner = user_id)}
\* the rows of the join DocumentChunk x Embedding x Document that pass the
\* optional WHERE Document.user_id == user_id

Min(a, b) == IF a <= b THEN a ELSE b

RECURSIVE OrderByLimit(_, _)
OrderByLimit(rows, k) ==
    IF k = 0 \/ rows = {}
    THEN {<<>>}
    ELSE UNION {{<<c>> \o s : s \in OrderByLimit(rows \ {c}, k - 1)} :
                   c \in {x \in rows : \A y \in rows : x.dist <= y.dist}}
\* the answers of ORDER BY distance LIMIT k over rows: nearest first, rows at the
\* same distance in any order (the query names no second sort key)

search_post_filter(idx, user_id, top_k) ==
    {SelectSeq(s, LAMBDA c : Truthy(user_id) => c.owner = user_id) :
        s \in OrderByLimit({c \in idx : c.emb}, top_k)}

search_similar_chunks(idx, user_id, top_k) ==
    OrderByLimit(Eligible(idx, user_id), top_k)
\* every list the query of rag.py:193-213 can return: WHERE, then ORDER BY, then LIMIT

NoContext == [absent |-> TRUE, parts |-> <<>>]
\* rag_context = None

SearchIdle ==
    /\ s_user = None
    /\ s_top_k = 0
    /\ s_result = <<>>
    /\ s_called = FALSE
    /\ s_raised = FALSE
    /\ s_context = NoContext
    /\ s_assembled = FALSE
\* no call made

Tag(filename) == [kind |-> "Documento", v |-> filename]
\* "[Documento: {filename}]\n"

Body(content) == [kind |-> "content", v |-> content]
\* "{chunk.content}\n"

DELIMITER == [kind |-> "---", v |-> 0]
\* "\n---\n"

context_part(chunk) == <<Tag(chunk.filename), Body(chunk.content)>>
\* rag.py:245, the rendering of one chunk; chunk.document is loaded with the chunk
\* (selectinload, rag.py:200-203) and is never None for a row of the join

RECURSIVE join(_, _)
join(sep, parts) ==
    IF parts = <<>> THEN <<>>
    ELSE IF Len(parts) = 1 THEN parts[1]
    ELSE parts[1] \o <<sep>> \o join(sep, Tail(parts))
\* sep.join(parts), a text being a sequence of such pieces

context_of_never_absent(s) ==
    [absent |-> FALSE,
     parts |-> join(DELIMITER, [i \in 1 .. Len(s) |-> context_part(s[i])])]

context_of(s) ==
    IF s = <<>> THEN NoContext
    ELSE [absent |-> FALSE,
          parts |-> join(DELIMITER, [i \in 1 .. Len(s) |-> context_part(s[i])])]
\* rag.py:240-254: None when no chunk was found, else the rendered parts of the
\* chunks, in retrieval order, joined by the delimiter

retrieve_context(idx, user_id, rag) ==
    IF rag = "embedding_failed"
    THEN {NoContext}
    ELSE {context_of(s) :
            s \in IF rag = "search_failed"
                  THEN {<<>>}
                  ELSE search_similar_chunks(idx, user_id, RAGService_top_k)}
\* the values retrieve_context can return when create_embedding raised (the except
\* branch at rag.py:256-259 returns None), when the similarity query raised
\* (search_similar_chunks returns [], rag.py:218-220), and when neither did

(***************************************************************************)
(* The session, app/database.py and SQLAlchemy's unit of work.             *)
(***************************************************************************)
session_flush_commit(session, committed, rows) ==
    [session |-> {}, committed |-> committed \cup session \cup rows]

session_flush(session, committed, rows) ==
    [session |-> session \cup rows, committed |-> committed]
\* db.add(...) and db.flush(): the rows are written inside the open transaction

session_commit(session, committed, rows) ==
    [session |-> {}, committed |-> committed \cup session \cup rows]
\* db.add(...) and db.commit(): pending rows flushed, the transaction made durable

session_rollback(session) == {}
\* db.rollback(), and session.close() of get_db with a transaction still open

(***************************************************************************)
(* The chunker, document_processor.py:125-174.  A text is a sequence of    *)
(* one-character strings.                                                  *)
(***************************************************************************)
chunk_size == 5
\* self.chunk_size, scaled down with the texts of the model (the code sets 1000)

chunk_overlap == 1
\* self.chunk_overlap, scaled alike (the code sets 200, a fifth of chunk_size)

Max(a, b) == IF a >= b THEN a ELSE b

IsSpace(ch) == ch \in {" ", "\n", "\t"}

PyIndex(i, n) == IF i < 0 THEN Max(i + n, 0) ELSE Min(i, n)
\* how a slice bound is clamped to a sequence of length n

PySlice(text, a, b) ==
    LET lo == PyIndex(a, Len(text))
        hi == PyIndex(b, Len(text))
    IN  IF lo < hi THEN SubSeq(text, lo + 1, hi) ELSE <<>>
\* text[a:b]

RECURSIVE lstrip(_)
lstrip(text) ==
    IF text # <<>> /\ IsSpace(Head(text)) THEN lstrip(Tail(text)) ELSE text

RECURSIVE rstrip(_)
rstrip(text) ==
    IF text # <<>> /\ IsSpace(text[Len(text)])
    THEN rstrip(SubSeq(text, 1, Len(text) - 1)) ELSE text

strip(text) == lstrip(rstrip(text))
\* str.strip()

rfind(text, ch) ==
    LET at == {i \in 1 .. Len(text) : text[i] = ch}
    IN  IF at = {} THEN 0 - 1 ELSE (CHOOSE i \in at : \A j \in at : j <= i) - 1
\* str.rfind(ch): the last 0-based position, or -1

Window(text, L, start) ==
    LET whole == PySlice(text, start, start + L)
        cut_point == Max(rfind(whole, "."), rfind(whole, "\n"))
    IN  IF start + L < Len(text) /\ 2 * cut_point > L
        THEN PySlice(whole, 0, cut_point + 1) ELSE whole
\* chunk_text after the optional cut at the last period or newline (lines 139-154)

WindowEnd(text, L, start) ==
    LET whole == PySlice(text, start, start + L)
        cut_point == Max(rfind(whole, "."), rfind(whole, "\n"))
    IN  IF start + L < Len(text) /\ 2 * cut_point > L
        THEN start + Len(Window(text, L, start)) ELSE start + L
\* end, which is start + chunk_size (not clamped to the text) unless the window was cut

next_start_at_end(end, O) == end

next_start(end, O) == end - O
\* start = end - self.chunk_overlap (line 170)

next_index_same(chunk_index) == chunk_index

next_index(chunk_index) == chunk_index + 1
\* chunk_index += 1 (line 171)

Chunk(text, L, start, chunk_index) ==
    [chunk_index |-> chunk_index,
     content |-> strip(Window(text, L, start)),
     start_char |-> start,
     end_char |-> WindowEnd(text, L, start),
     length |-> Len(Window(text, L, start))]
\* the DocumentChunk one iteration builds (lines 156-165)

RECURSIVE ChunksFrom(_, _, _, _, _, _)
ChunksFrom(text, L, O, start, chunk_index, fuel) ==
    IF ~(start < Len(text)) \/ strip(PySlice(text, start, start + L)) = <<>>
    THEN [chunks |-> <<>>, returns |-> TRUE]
    ELSE IF fuel = 0
    THEN [chunks |-> <<>>, returns |-> FALSE]
    ELSE LET end == WindowEnd(text, L, start)
             rest == ChunksFrom(text, L, O, next_start(end, O), next_index(chunk_index),
                               fuel - 1)
         IN  [chunks |-> <<Chunk(text, L, start, chunk_index)>> \o rest.chunks,
              returns |-> rest.returns]
\* the while loop of _create_chunks from one window start on; returns is FALSE when
\* the loop is still running after fuel iterations

create_chunks(text, L, O) == ChunksFrom(text, L, O, 0, 0, Len(text) + 1)
\* _create_chunks: the chunk objects in emission order

ChunkIdle ==
    /\ k_text = <<>>
    /\ k_L = chunk_size
    /\ k_O = chunk_overlap
    /\ k_start = 0
    /\ k_index = 0
    /\ k_chunks = <<>>
    /\ k_pc = "idle"
\* no call of _create_chunks followed step by step

StreamIdle ==
    /\ g_stream = <<>>
    /\ g_raises = None
    /\ g_pos = 0
    /\ g_wpc = "idle"
    /\ g_ready = <<>>
    /\ g_queue = <<>>
    /\ g_yielded = <<>>
    /\ g_cpc = "idle"
\* no call of stream_chat followed step by step

(***************************************************************************)
(* The prompt of a turn: _build_message_history                            *)
(* (chat_orchestrator.py:167-193) and the message loop of stream_chat      *)
(* (llm.py:49-81).  A message is [role, content], contents being numbered. *)
(***************************************************************************)
history_limit == 10
\* chat_orchestrator.py:171, limit: int = 10

Reverse(s) == [i \in 1 .. Len(s) |-> s[Len(s) + 1 - i]]

build_message_history(stored, limit) ==
    LET desc == Reverse(stored)
        rows == SubSeq(desc, 1, Min(limit, Len(desc)))
    IN  Reverse(rows)
\* ORDER BY created_at DESC LIMIT limit over the conversation's messages, then
\* reversed(...), each row formatted as {"role", "content"}

RECURSIVE scan(_, _, _)
scan(msgs, last_user_message, history) ==
    IF msgs = <<>>
    THEN [last_user_message |-> last_user_message, history |-> history]
    ELSE LET msg == Head(msgs)
         IN  IF msg.role = "system"
             THEN scan(Tail(msgs), last_user_message, history)
             ELSE IF msg.role = "user"
             THEN IF last_user_message = None
                  THEN scan(Tail(msgs), msg.content, history)
                  ELSE scan(Tail(msgs), last_user_message,
                            Append(history, [role |-> "user", content |-> msg.content]))
             ELSE IF msg.role = "assistant"
             THEN scan(Tail(msgs), last_user_message,
                       Append(history, [role |-> "model", content |-> msg.content]))
             ELSE scan(Tail(msgs), last_user_message, history)
\* llm.py:52-64, the loop over messages: the first user message met becomes
\* last_user_message, every later user message and every assistant message goes to
\* history

split_messages(msgs) ==
    LET r == scan(msgs, None, <<>>)
    IN  IF r.last_user_message = None /\ r.history # <<>>
        THEN [last_user_message |-> Head(r.history).content, history |-> Tail(r.history)]
        ELSE r
\* llm.py:49-67

full_prompt(history, last_user_message) ==
    <<[role |-> "system", content |-> 0],
      [role |-> "user", content |-> last_user_message]>>
\* llm.py:78-81, f"{system_prompt}\n\nUsuario: {last_user_message}" (the system
\* prompt of _build_system_prompt is never empty); history is not read

PromptIdle ==
    /\ p_stored = <<>>
    /\ p_user_message = None
    /\ p_messages = <<>>
    /\ p_last_user_message = None
    /\ p_history = <<>>
    /\ p_contents = <<>>
    /\ p_pc = "idle"
\* no prompt followed

(***************************************************************************)
(* Ingestion, routers/documents.py:118-181 and document_processor.py.      *)
(***************************************************************************)
Requests == {1, 2}
\* two ingest requests, each with its own session, in any interleaving

TheDocument == 1
\* id of the document the model stores; any other id finds no document

Statuses == {"uploaded", "processing", "processed", "error"}
\* models/document.py:8-12, DocumentStatus

Texts == {<<>>,
          <<" ">>,
          <<"a", "b">>,
          <<"a", "b", ".", "c", "d">>,
          <<"a", "b", "c", ".", " ", "d", "e", "f", "g", "h">>}
\* extracted texts: none, blank, and texts of one, two and three chunks

Range(s) == {s[i] : i \in 1 .. Len(s)}

rejects_never(status) == FALSE

rejects(status) == status = "processing"
\* documents.py:142, the test that answers 400 "Document is already being processed"

ChunkRow(id, chunk) ==
    [id |-> id, document_id |-> TheDocument, chunk_index |-> chunk.chunk_index,
     content |-> chunk.content]
\* the row a DocumentChunk is stored as (models/document.py:33-41)

delete_old_chunks_none(rows, document_id) == {}

delete_old_chunks(rows, document_id) ==
    {c.id : c \in {x \in rows : x.document_id = document_id}}
\* ids of the chunks DELETE ... WHERE document_id = :id removes (lines 189-194)

delete_old_embeddings_none(embs, rows, document_id) == {}

delete_old_embeddings(embs, rows, document_id) ==
    {e.id : e \in {x \in embs : x.chunk_id \in delete_old_chunks(rows, document_id)}}
\* ids of the embeddings the first DELETE removes (lines 179-187)

after_rollback_applied(rows, deleted, inserted) ==
    {x \in rows : x.id \notin deleted} \cup inserted

after_rollback(rows, deleted, inserted) == rows
\* db.rollback() (document_processor.py:63-65) and the close() of get_db on an open
\* transaction: the stored rows are what they were before the transaction's
\* deletes and inserts

embedded_all_or_nothing(chunks, failing) ==
    IF failing = {} THEN [i \in 1 .. Len(chunks) |-> chunks[i].id] ELSE <<>>

embedded(chunks, failing) ==
    LET ok == {i \in 1 .. Len(chunks) : chunks[i].chunk_index \notin failing}
        nth(k) == CHOOSE i \in ok : Cardinality({j \in ok : j < i}) = k - 1
    IN  [k \in 1 .. Cardinality(ok) |-> chunks[nth(k)].id]
\* process_document_chunks: chunk ids of the Embedding objects it adds, in order,
\* one for every chunk whose create_embedding did not raise (rag.py:296-316)

IngestIdle ==
    /\ docStatus = "uploaded"
    /\ docText = <<>>
    /\ chunkRows = {}
    /\ embRows = {}
    /\ nextChunkId = 1
    /\ nextEmbId = 1
    /\ docLock = None
    /\ r_pc = [r \in Requests |-> "idle"]
    /\ r_doc = [r \in Requests |-> None]
    /\ r_status = [r \in Requests |-> "unloaded"]
    /\ r_txStatus = [r \in Requests |-> "unwritten"]
    /\ r_delChunks = [r \in Requests |-> {}]
    /\ r_delEmb = [r \in Requests |-> {}]
    /\ r_newChunks = [r \in Requests |-> {}]
    /\ r_newEmb = [r \in Requests |-> {}]
    /\ r_chunks = [r \in Requests |-> <<>>]
    /\ r_failing = [r \in Requests |-> {}]
    /\ r_added = [r \in Requests |-> <<>>]
    /\ r_exc = [r \in Requests |-> "none"]
    /\ r_result = [r \in Requests |-> <<None, None>>]
\* no ingest request in the chat specification

(***************************************************************************)
(* The chat turn, chat_orchestrator.py and llm.py.                         *)
(***************************************************************************)
Event(kind, data, cid, mid) ==
    [event |-> kind, data |-> data, conversation_id |-> cid, message_id |-> mid]

TokenEvent(chunk) == Event("token", chunk, None, None)

DoneEvent(cid, mid) == Event("done", "", cid, mid)

ErrorEvent == Event("error", "", None, None)

Message(id, cid, role, content, t) ==
    [id |-> id, conversation_id |-> cid, role |-> role, content |-> content, turn |-> t]

blank(ctx) == ctx.absent \/ ctx.parts = <<>>
\* not rag_context or not rag_context.strip()

refuses_always(use_rag, ctx) == FALSE

refuses(use_rag, ctx) == use_rag /\ blank(ctx)
\* llm.py:36, the gate in front of any provider call

persists_always(user, conv) == TRUE

persists(user, conv) == user # None /\ conv # None
\* chat_orchestrator.py:87, `if user and conversation`

on_exception_silent(events) == events

on_exception(events) == Append(events, ErrorEvent)
\* chat_orchestrator.py:131-134, the except branch's yield

PLACEHOLDER_TITLE == "Nueva conversacion"
\* chat_orchestrator.py:160, the title a new conversation gets

owned_by_anyone(convs, conversation_id, user_id) ==
    /\ conversation_id # None /\ conversation_id # 0
    /\ \E c \in convs : c.id = conversation_id

owned(convs, conversation_id, user_id) ==
    /\ conversation_id # None /\ conversation_id # 0
    /\ \E c \in convs : c.id = conversation_id /\ c.user_id = user_id
\* chat_orchestrator.py:146-155: `if conversation_id:` and the SELECT by id and
\* user_id finds a row

TurnRequest(t) ==
    /\ t_pc[t] = "idle"
    /\ \E u \in Users \cup {None}, c \in {None, 1}, r \in BOOLEAN :
          /\ t_user' = [t_user EXCEPT ![t] = u]
          /\ t_convArg' = [t_convArg EXCEPT ![t] = c]
          /\ t_useRag' = [t_useRag EXCEPT ![t] = r]
    /\ t_pc' = [t_pc EXCEPT ![t] = "start"]
    /\ UNCHANGED <<promptVars, indexVars, searchVars, chunkVars, llmVars, ingestVars, t_commits, t_created, t_rag, t_exc, t_tx, conversations, messages, nextConvId, nextMsgId, client,
                   t_conv, t_session, t_ctx, t_gen, t_content, t_events, t_calls>>
\* a call of stream_chat_response with its arguments

Raise(t, exc) ==
    /\ t_pc' = [t_pc EXCEPT ![t] = "except"]
    /\ t_exc' = [t_exc EXCEPT ![t] = exc]
    /\ UNCHANGED <<promptVars, indexVars, searchVars, chunkVars, llmVars, ingestVars, t_commits, t_created, t_rag, t_tx, conversations, messages, nextConvId, nextMsgId, client,
                   t_user, t_convArg, t_useRag, t_conv, t_session, t_ctx, t_gen,
                   t_content, t_events, t_calls>>
\* an exception of a database call reaches the try block of stream_chat_response

GetOrCreateConversation(t) ==
    /\ t_pc[t] = "start"
    /\ t_user[t] # None
    /\ \/ /\ owned(conversations, t_convArg[t], t_user[t])
          /\ t_conv' = [t_conv EXCEPT ![t] = t_convArg[t]]
          /\ t_tx' = [t_tx EXCEPT ![t] = "open"]
          /\ UNCHANGED <<conversations, nextConvId, t_commits, t_created>>
       \/ /\ ~owned(conversations, t_convArg[t], t_user[t])
          /\ conversations' = conversations \cup
                 {[id |-> nextConvId, user_id |-> t_user[t],
                   title |-> PLACEHOLDER_TITLE, updated |-> 0]}
          /\ nextConvId' = nextConvId + 1
          /\ t_conv' = [t_conv EXCEPT ![t] = nextConvId]
          /\ t_commits' = [t_commits EXCEPT ![t] = @ + 1]
          /\ t_created' = [t_created EXCEPT ![t] = TRUE]
          /\ t_tx' = [t_tx EXCEPT ![t] = "committed"]
    /\ t_pc' = [t_pc EXCEPT ![t] = "persist_user"]
    /\ UNCHANGED <<promptVars, indexVars, searchVars, chunkVars, llmVars, ingestVars, t_rag, t_exc, messages, nextMsgId, client, t_user, t_convArg, t_useRag,
                   t_session, t_ctx, t_gen, t_content, t_events, t_calls>>
\* _get_or_create_conversation: reuse the caller's conversation, else add a new one
\* and commit it at once (chat_orchestrator.py:158-165)

GetOrCreateConversationFails(t) ==
    /\ t_pc[t] = "start"
    /\ t_user[t] # None
    /\ Raise(t, "DatabaseError")

AnonymousStart(t) ==
    /\ t_pc[t] = "start"
    /\ t_user[t] = None
    /\ t_pc' = [t_pc EXCEPT ![t] = "rag"]
    /\ UNCHANGED <<promptVars, indexVars, searchVars, chunkVars, llmVars, ingestVars, t_commits, t_created, t_rag, t_exc, t_tx, conversations, messages, nextConvId, nextMsgId, client,
                   t_user, t_convArg, t_useRag, t_conv, t_session, t_ctx, t_gen,
                   t_content, t_events, t_calls>>
\* chat_orchestrator.py:57-59, no conversation, no history

PersistUserTurn(t) ==
    /\ t_pc[t] = "persist_user"
    /\ LET w == session_flush(t_session[t], messages,
                    {Message(nextMsgId, t_conv[t], "user", <<"user_message">>, t)})
       IN  /\ t_session' = [t_session EXCEPT ![t] = w.session]
           /\ messages' = w.committed
    /\ nextMsgId' = nextMsgId + 1
    /\ t_tx' = [t_tx EXCEPT ![t] = "open"]
    /\ t_pc' = [t_pc EXCEPT ![t] = "history"]
    /\ UNCHANGED <<promptVars, indexVars, searchVars, chunkVars, llmVars, ingestVars, t_commits, t_created, t_rag, t_exc, conversations, nextConvId, client, t_user, t_convArg,
                   t_useRag, t_conv, t_ctx, t_gen, t_content, t_events, t_calls>>
\* chat_orchestrator.py:46-52, db.add(user_msg); await db.flush()

PersistUserTurnFails(t) ==
    /\ t_pc[t] = "persist_user"
    /\ Raise(t, "DatabaseError")

BuildMessageHistory(t) ==
    /\ t_pc[t] = "history"
    /\ t_pc' = [t_pc EXCEPT ![t] = "rag"]
    /\ UNCHANGED <<promptVars, indexVars, searchVars, chunkVars, llmVars, ingestVars, t_commits, t_created, t_rag, t_exc, t_tx, conversations, messages, nextConvId, nextMsgId, client,
                   t_user, t_convArg, t_useRag, t_conv, t_session, t_ctx, t_gen,
                   t_content, t_events, t_calls>>
\* _build_message_history: a query, no write

BuildMessageHistoryFails(t) ==
    /\ t_pc[t] = "history"
    /\ Raise(t, "DatabaseError")

RetrieveContext(t) ==
    /\ t_pc[t] = "rag"
    /\ IF t_useRag[t]
       THEN \E rag \in {"ok", "embedding_failed", "search_failed"} :
                /\ t_rag' = [t_rag EXCEPT ![t] = rag]
                /\ \E ctx \in retrieve_context(index, t_user[t], rag) :
                       t_ctx' = [t_ctx EXCEPT ![t] = ctx]
                /\ \E tx \in {"open", "aborted"} :
                       /\ tx = "aborted" => rag = "search_failed"
                       /\ t_tx' = [t_tx EXCEPT ![t] =
                              IF rag = "embedding_failed" THEN @ ELSE tx]
       ELSE /\ t_ctx' = [t_ctx EXCEPT ![t] = NoContext]
            /\ UNCHANGED <<t_rag, t_tx>>
    /\ t_pc' = [t_pc EXCEPT ![t] = "stream"]
    /\ UNCHANGED <<promptVars, indexVars, searchVars, chunkVars, llmVars, ingestVars, t_commits, t_created, t_exc, conversations, messages, nextConvId, nextMsgId, client,
                   t_user, t_convArg, t_useRag, t_conv, t_session, t_gen, t_content,
                   t_events, t_calls>>
\* chat_orchestrator.py:62-67: retrieve_context on the turn's own session; it swallows
\* every exception.  A similarity query that fails at the server leaves the
\* session's transaction aborted, one that fails before it is sent does not

Yield(t, chunk) ==
    /\ t_content' = [t_content EXCEPT ![t] = Append(@, chunk)]
    /\ t_events' = [t_events EXCEPT ![t] = Append(@, TokenEvent(chunk))]
\* chat_orchestrator.py:79-84

StreamRefusal(t) ==
    /\ t_pc[t] = "stream" /\ t_gen[t] = "new"
    /\ refuses(t_useRag[t], t_ctx[t])
    /\ Yield(t, REFUSAL)
    /\ t_gen' = [t_gen EXCEPT ![t] = "last"]
    /\ UNCHANGED <<promptVars, indexVars, searchVars, chunkVars, llmVars, ingestVars, t_commits, t_created, t_rag, t_exc, t_tx, conversations, messages, nextConvId, nextMsgId, client,
                   t_pc, t_user, t_convArg, t_useRag, t_conv, t_session, t_ctx, t_calls>>
\* llm.py:36-38

StreamNoClient(t) ==
    /\ t_pc[t] = "stream" /\ t_gen[t] = "new"
    /\ ~refuses(t_useRag[t], t_ctx[t])
    /\ ~client
    /\ Yield(t, NO_KEY)
    /\ t_gen' = [t_gen EXCEPT ![t] = "last"]
    /\ UNCHANGED <<promptVars, indexVars, searchVars, chunkVars, llmVars, ingestVars, t_commits, t_created, t_rag, t_exc, t_tx, conversations, messages, nextConvId, nextMsgId, client,
                   t_pc, t_user, t_convArg, t_useRag, t_conv, t_session, t_ctx, t_calls>>
\* llm.py:41-43

StreamCallProvider(t) ==
    /\ t_pc[t] = "stream" /\ t_gen[t] = "new"
    /\ ~refuses(t_useRag[t], t_ctx[t])
    /\ client
    /\ t_calls' = [t_calls EXCEPT ![t] = @ + 1]
    /\ t_gen' = [t_gen EXCEPT ![t] = "provider"]
    /\ UNCHANGED <<promptVars, indexVars, searchVars, chunkVars, llmVars, ingestVars, t_commits, t_created, t_rag, t_exc, t_tx, conversations, messages, nextConvId, nextMsgId, client,
                   t_pc, t_user, t_convArg, t_useRag, t_conv, t_session, t_ctx,
                   t_content, t_events>>
\* llm.py:87-117, the worker calls generate_content_stream

StreamFragment(t) ==
    /\ t_pc[t] = "stream" /\ t_gen[t] = "provider"
    /\ Len(t_content[t]) < MaxFragments
    /\ Yield(t, "tok")
    /\ UNCHANGED <<promptVars, indexVars, searchVars, chunkVars, llmVars, ingestVars, t_commits, t_created, t_rag, t_exc, t_tx, conversations, messages, nextConvId, nextMsgId, client,
                   t_pc, t_user, t_convArg, t_useRag, t_conv, t_session, t_ctx, t_gen,
                   t_calls>>
\* llm.py:98-103 and 120-124, one fragment through the queue

StreamProviderError(t) ==
    /\ t_pc[t] = "stream" /\ t_gen[t] = "provider"
    /\ Yield(t, PROVIDER_ERROR)
    /\ t_gen' = [t_gen EXCEPT ![t] = "last"]
    /\ UNCHANGED <<promptVars, indexVars, searchVars, chunkVars, llmVars, ingestVars, t_commits, t_created, t_rag, t_exc, t_tx, conversations, messages, nextConvId, nextMsgId, client,
                   t_pc, t_user, t_convArg, t_useRag, t_conv, t_session, t_ctx, t_calls>>
\* llm.py:105-109, the provider's exception becomes a fragment

StreamEnd(t) ==
    /\ t_pc[t] = "stream" /\ t_gen[t] \in {"provider", "last"}
    /\ t_gen' = [t_gen EXCEPT ![t] = "exhausted"]
    /\ t_pc' = [t_pc EXCEPT ![t] = "persist_assistant"]
    /\ UNCHANGED <<promptVars, indexVars, searchVars, chunkVars, llmVars, ingestVars, t_commits, t_created, t_rag, t_exc, t_tx, conversations, messages, nextConvId, nextMsgId, client,
                   t_user, t_convArg, t_useRag, t_conv, t_session, t_ctx, t_content,
                   t_events, t_calls>>
\* llm.py:110-123, the sentinel ends the async for

Disconnect(t) ==
    /\ t_pc[t] = "stream"
    /\ t_events[t] # <<>>
    /\ t_session' = [t_session EXCEPT ![t] = session_rollback(@)]
    /\ t_tx' = [t_tx EXCEPT ![t] = "closed"]
    /\ t_pc' = [t_pc EXCEPT ![t] = "closed"]
    /\ UNCHANGED <<promptVars, indexVars, searchVars, chunkVars, llmVars, ingestVars, t_commits, t_created, t_rag, t_exc, conversations, messages, nextConvId, nextMsgId, client,
                   t_user, t_convArg, t_useRag, t_conv, t_ctx, t_gen, t_content,
                   t_events, t_calls>>
\* the consumer closes the generator at a token yield: GeneratorExit is no Exception,
\* the except branch is skipped, and get_db closes the session (database.py:32-33)

PersistAssistantTurn(t) ==
    /\ t_pc[t] = "persist_assistant"
    /\ persists(t_user[t], t_conv[t])
    /\ t_tx[t] # "aborted"
    /\ LET w == session_commit(t_session[t], messages,
                    {Message(nextMsgId, t_conv[t], "assistant", t_content[t], t)})
       IN  /\ t_session' = [t_session EXCEPT ![t] = w.session]
           /\ messages' = w.committed
    /\ conversations' = {IF c.id = t_conv[t] THEN [c EXCEPT !.updated = @ + 1] ELSE c :
                            c \in conversations}
    /\ t_events' = [t_events EXCEPT ![t] = Append(@, DoneEvent(t_conv[t], nextMsgId))]
    /\ nextMsgId' = nextMsgId + 1
    /\ t_commits' = [t_commits EXCEPT ![t] = @ + 1]
    /\ t_tx' = [t_tx EXCEPT ![t] = "committed"]
    /\ t_pc' = [t_pc EXCEPT ![t] = "finished"]
    /\ UNCHANGED <<promptVars, indexVars, searchVars, chunkVars, llmVars, ingestVars, t_created, t_rag, t_exc, nextConvId, client, t_user, t_convArg, t_useRag, t_conv,
                   t_ctx, t_gen, t_content, t_calls>>
\* chat_orchestrator.py:87-116: add the assistant message, bump updated_at, one commit,
\* then the done event

PersistAssistantTurnFails(t) ==
    /\ t_pc[t] = "persist_assistant"
    /\ persists(t_user[t], t_conv[t])
    /\ Raise(t, IF t_tx[t] = "aborted" THEN "InFailedSQLTransaction" ELSE "DatabaseError")
\* the update or the commit raises: always so in a transaction in which a statement
\* has failed (PostgreSQL refuses every statement until the transaction ends), and
\* possibly so in any other

AnonymousDone(t) ==
    /\ t_pc[t] = "persist_assistant"
    /\ ~persists(t_user[t], t_conv[t])
    /\ t_events' = [t_events EXCEPT ![t] = Append(@, DoneEvent(None, None))]
    /\ t_pc' = [t_pc EXCEPT ![t] = "finished"]
    /\ UNCHANGED <<promptVars, indexVars, searchVars, chunkVars, llmVars, ingestVars, t_commits, t_created, t_rag, t_exc, t_tx, conversations, messages, nextConvId, nextMsgId, client,
                   t_user, t_convArg, t_useRag, t_conv, t_session, t_ctx, t_gen,
                   t_content, t_calls>>
\* chat_orchestrator.py:117-125

HandleException(t) ==
    /\ t_pc[t] = "except"
    /\ t_session' = [t_session EXCEPT ![t] = session_rollback(@)]
    /\ t_events' = [t_events EXCEPT ![t] = on_exception(@)]
    /\ t_tx' = [t_tx EXCEPT ![t] = "rolled_back"]
    /\ t_pc' = [t_pc EXCEPT ![t] = "failed"]
    /\ UNCHANGED <<promptVars, indexVars, searchVars, chunkVars, llmVars, ingestVars, t_commits, t_created, t_rag, t_exc, conversations, messages, nextConvId, nextMsgId, client,
                   t_user, t_convArg, t_useRag, t_conv, t_ctx, t_gen, t_content, t_calls>>
\* chat_orchestrator.py:127-134: rollback, then the error event

IndexRows == {[id |-> 1, owner |-> 1, filename |-> 1, content |-> 1, dist |-> 1,
               emb |-> TRUE]}
\* the chunks the chat specification finds stored: user 1 has one, the others none

InitChat ==
    /\ index = IndexRows
    /\ conversations = {}
    /\ messages = {}
    /\ nextConvId = 1
    /\ nextMsgId = 1
    /\ client \in BOOLEAN
    /\ t_pc = [t \in Turns |-> "idle"]
    /\ t_user = [t \in Turns |-> None]
    /\ t_convArg = [t \in Turns |-> None]
    /\ t_useRag = [t \in Turns |-> FALSE]
    /\ t_conv = [t \in Turns |-> None]
    /\ t_session = [t \in Turns |-> {}]
    /\ t_ctx = [t \in Turns |-> NoContext]
    /\ t_gen = [t \in Turns |-> "new"]
    /\ t_content = [t \in Turns |-> <<>>]
    /\ t_events = [t \in Turns |-> <<>>]
    /\ t_calls = [t \in Turns |-> 0]
    /\ t_commits = [t \in Turns |-> 0]
    /\ t_created = [t \in Turns |-> FALSE]
    /\ t_rag = [t \in Turns |-> "off"]
    /\ t_exc = [t \in Turns |-> "none"]
    /\ t_tx = [t \in Turns |-> "none"]
    /\ IngestIdle
    /\ SearchIdle
    /\ PromptIdle
    /\ ChunkIdle
    /\ StreamIdle

NextChat ==
    \E t \in Turns :
        \/ TurnRequest(t)
        \/ GetOrCreateConversation(t)
        \/ GetOrCreateConversationFails(t)
        \/ AnonymousStart(t)
        \/ PersistUserTurn(t)
        \/ PersistUserTurnFails(t)
        \/ BuildMessageHistory(t)
        \/ BuildMessageHistoryFails(t)
        \/ RetrieveContext(t)
        \/ StreamRefusal(t)
        \/ StreamNoClient(t)
        \/ StreamCallProvider(t)
        \/ StreamFragment(t)
        \/ StreamProviderError(t)
        \/ StreamEnd(t)
        \/ Disconnect(t)
        \/ PersistAssistantTurn(t)
        \/ PersistAssistantTurnFails(t)
        \/ AnonymousDone(t)
        \/ HandleException(t)

SpecChat == InitChat /\ [][NextChat]_vars


(***************************************************************************)
(* The ingest request and process_document.  PostgreSQL runs the sessions  *)
(* READ COMMITTED: a statement sees the committed rows and the rows of its *)
(* own transaction, and an UPDATE of the Document row waits while another  *)
(* open transaction has updated that row (docLock).                        *)
(***************************************************************************)
ChatIdle ==
    /\ conversations = {}
    /\ messages = {}
    /\ nextConvId = 1
    /\ nextMsgId = 1
    /\ client = TRUE
    /\ t_pc = [t \in Turns |-> "idle"]
    /\ t_user = [t \in Turns |-> None]
    /\ t_convArg = [t \in Turns |-> None]
    /\ t_useRag = [t \in Turns |-> FALSE]
    /\ t_conv = [t \in Turns |-> None]
    /\ t_session = [t \in Turns |-> {}]
    /\ t_ctx = [t \in Turns |-> NoContext]
    /\ t_gen = [t \in Turns |-> "new"]
    /\ t_content = [t \in Turns |-> <<>>]
    /\ t_events = [t \in Turns |-> <<>>]
    /\ t_calls = [t \in Turns |-> 0]
    /\ t_commits = [t \in Turns |-> 0]
    /\ t_created = [t \in Turns |-> FALSE]
    /\ t_rag = [t \in Turns |-> "off"]
    /\ t_exc = [t \in Turns |-> "none"]
    /\ t_tx = [t \in Turns |-> "none"]
\* no chat turn in the ingestion specification

IngestRequest(r) ==
    /\ r_pc[r] = "idle"
    /\ \E d \in {TheDocument, TheDocument + 1} : r_doc' = [r_doc EXCEPT ![r] = d]
    /\ r_pc' = [r_pc EXCEPT ![r] = "select"]
    /\ UNCHANGED <<promptVars, indexVars, searchVars, chunkVars, llmVars, chatVars, docStatus, docText, chunkRows, embRows,
                   nextChunkId, nextEmbId, docLock, r_status, r_txStatus, r_delChunks,
                   r_delEmb, r_newChunks, r_newEmb, r_chunks, r_failing, r_added, r_exc,
                   r_result>>
\* POST /documents/{document_id}/ingest

SelectDocument(r) ==
    /\ r_pc[r] = "select"
    /\ \/ /\ r_doc[r] # TheDocument
          /\ r_pc' = [r_pc EXCEPT ![r] = "http404"]
          /\ UNCHANGED r_status
       \/ /\ r_doc[r] = TheDocument
          /\ rejects(docStatus)
          /\ r_status' = [r_status EXCEPT ![r] = docStatus]
          /\ r_pc' = [r_pc EXCEPT ![r] = "http400"]
       \/ /\ r_doc[r] = TheDocument
          /\ ~rejects(docStatus)
          /\ r_status' = [r_status EXCEPT ![r] = docStatus]
          /\ r_pc' = [r_pc EXCEPT ![r] = "download"]
    /\ UNCHANGED <<promptVars, indexVars, searchVars, chunkVars, llmVars, chatVars, docStatus, docText, chunkRows, embRows,
                   nextChunkId, nextEmbId, docLock, r_doc, r_txStatus, r_delChunks,
                   r_delEmb, r_newChunks, r_newEmb, r_chunks, r_failing, r_added, r_exc,
                   r_result>>
\* documents.py:128-146: load the caller's document from the committed rows; 404 when
\* there is none, 400 when its status is processing

Goto(r, to, exc) ==
    /\ r_pc' = [r_pc EXCEPT ![r] = to]
    /\ r_exc' = [r_exc EXCEPT ![r] = exc]
    /\ UNCHANGED <<promptVars, indexVars, searchVars, chunkVars, llmVars, chatVars, docStatus, docText, chunkRows, embRows,
                   nextChunkId, nextEmbId, docLock, r_doc, r_status, r_txStatus,
                   r_delChunks, r_delEmb, r_newChunks, r_newEmb, r_chunks, r_failing,
                   r_added, r_result>>
\* a jump that writes nothing: a step that only reads, or an exception being raised

Download(r) ==
    /\ r_pc[r] = "download"
    /\ Goto(r, "proc_start", "none")
\* documents.py:149-153

DownloadFails(r) ==
    /\ r_pc[r] = "download"
    /\ Goto(r, "http500", "StorageError")
\* download_file raises: the router's except branch, process_document never called

ProcSetProcessing(r) ==
    /\ r_pc[r] = "proc_start"
    /\ docLock \in {None, r}
    /\ docLock' = r
    /\ r_status' = [r_status EXCEPT ![r] = "processing"]
    /\ r_txStatus' = [r_txStatus EXCEPT ![r] = "processing"]
    /\ r_pc' = [r_pc EXCEPT ![r] = "proc_delete"]
    /\ UNCHANGED <<promptVars, indexVars, searchVars, chunkVars, llmVars, chatVars, docStatus, docText, chunkRows, embRows,
                   nextChunkId, nextEmbId, r_doc, r_delChunks, r_delEmb, r_newChunks,
                   r_newEmb, r_chunks, r_failing, r_added, r_exc, r_result>>
\* document_processor.py:43-44: status = PROCESSING, flushed, not committed

ProcDeleteOld(r) ==
    /\ r_pc[r] = "proc_delete"
    /\ r_delEmb' = [r_delEmb EXCEPT ![r] =
           delete_old_embeddings(embRows, chunkRows, TheDocument)]
    /\ r_delChunks' = [r_delChunks EXCEPT ![r] = delete_old_chunks(chunkRows, TheDocument)]
    /\ r_pc' = [r_pc EXCEPT ![r] = "proc_extract"]
    /\ UNCHANGED <<promptVars, indexVars, searchVars, chunkVars, llmVars, chatVars, docStatus, docText, chunkRows, embRows,
                   nextChunkId, nextEmbId, docLock, r_doc, r_status, r_txStatus,
                   r_newChunks, r_newEmb, r_chunks, r_failing, r_added, r_exc, r_result>>
\* _delete_old_chunks_and_embeddings, inside the open transaction

ProcExtract(r) ==
    /\ r_pc[r] = "proc_extract"
    /\ docText # <<>>
    /\ Goto(r, "proc_chunks", "none")
\* document_processor.py:49-52, text extracted

ProcExtractEmpty(r) ==
    /\ r_pc[r] = "proc_extract"
    /\ docText = <<>>
    /\ Goto(r, "proc_except", "No text extracted")
\* document_processor.py:51-52: raise ValueError("No text extracted")

ProcCreateChunks(r) ==
    /\ r_pc[r] = "proc_chunks"
    /\ LET made == create_chunks(docText, chunk_size, chunk_overlap).chunks
           rows == [i \in 1 .. Len(made) |-> ChunkRow(nextChunkId + i - 1, made[i])]
       IN  /\ r_chunks' = [r_chunks EXCEPT ![r] = rows]
           /\ r_newChunks' = [r_newChunks EXCEPT ![r] = Range(rows)]
           /\ nextChunkId' = nextChunkId + Len(made)
    /\ r_pc' = [r_pc EXCEPT ![r] = "proc_embed"]
    /\ UNCHANGED <<promptVars, indexVars, searchVars, chunkVars, llmVars, chatVars, docStatus, docText, chunkRows, embRows,
                   nextEmbId, docLock, r_doc, r_status, r_txStatus, r_delChunks,
                   r_delEmb, r_newEmb, r_failing, r_added, r_exc, r_result>>
\* _create_chunks: the chunks are added and flushed, which gives them their ids

ProcEmbed(r) ==
    /\ r_pc[r] = "proc_embed"
    /\ \E failing \in SUBSET {r_chunks[r][i].chunk_index : i \in 1 .. Len(r_chunks[r])} :
          /\ r_failing' = [r_failing EXCEPT ![r] = failing]
          /\ r_added' = [r_added EXCEPT ![r] = embedded(r_chunks[r], failing)]
    /\ r_pc' = [r_pc EXCEPT ![r] = "proc_finish"]
    /\ UNCHANGED <<promptVars, indexVars, searchVars, chunkVars, llmVars, chatVars, docStatus, docText, chunkRows, embRows,
                   nextChunkId, nextEmbId, docLock, r_doc, r_status, r_txStatus,
                   r_delChunks, r_delEmb, r_newChunks, r_newEmb, r_chunks, r_exc,
                   r_result>>
\* process_document_chunks: one create_embedding per chunk, gathered with
\* return_exceptions=True; an Embedding is added for each that returned a vector

ProcSetProcessed(r) ==
    /\ r_pc[r] = "proc_finish"
    /\ r_status' = [r_status EXCEPT ![r] = "processed"]
    /\ r_txStatus' = [r_txStatus EXCEPT ![r] = "processed"]
    /\ r_newEmb' = [r_newEmb EXCEPT ![r] =
           {[id |-> nextEmbId + i - 1, chunk_id |-> r_added[r][i]] :
               i \in 1 .. Len(r_added[r])}]
    /\ nextEmbId' = nextEmbId + Len(r_added[r])
    /\ r_result' = [r_result EXCEPT ![r] = <<Len(r_chunks[r]), Len(r_added[r])>>]
    /\ r_pc' = [r_pc EXCEPT ![r] = "commit"]
    /\ UNCHANGED <<promptVars, indexVars, searchVars, chunkVars, llmVars, chatVars, docStatus, docText, chunkRows, embRows,
                   nextChunkId, docLock, r_doc, r_delChunks, r_delEmb, r_newChunks,
                   r_chunks, r_failing, r_added, r_exc>>
\* document_processor.py:58-61: status = PROCESSED, the flush writes it and the
\* embeddings, and the pair is returned

ProcStepFails(r) ==
    /\ r_pc[r] \in {"proc_start", "proc_delete", "proc_chunks", "proc_embed", "proc_finish"}
    /\ Goto(r, "proc_except", "DatabaseError")
\* a flush or a statement of process_document raises

ProcRollback(r) ==
    /\ r_pc[r] = "proc_except"
    /\ docLock' = IF docLock = r THEN None ELSE docLock
    /\ r_txStatus' = [r_txStatus EXCEPT ![r] = "unwritten"]
    /\ r_delChunks' = [r_delChunks EXCEPT ![r] = {}]
    /\ r_delEmb' = [r_delEmb EXCEPT ![r] = {}]
    /\ r_newChunks' = [r_newChunks EXCEPT ![r] = {}]
    /\ r_newEmb' = [r_newEmb EXCEPT ![r] = {}]
    /\ r_added' = [r_added EXCEPT ![r] = <<>>]
    /\ r_status' = [r_status EXCEPT ![r] = "error"]
    /\ r_pc' = [r_pc EXCEPT ![r] = "proc_error_flush"]
    /\ chunkRows' = after_rollback(chunkRows, r_delChunks[r], r_newChunks[r])
    /\ embRows' = after_rollback(embRows, r_delEmb[r], r_newEmb[r])
    /\ UNCHANGED <<promptVars, indexVars, searchVars, chunkVars, llmVars, chatVars, docStatus, docText,
                   nextChunkId, nextEmbId, r_doc, r_chunks, r_failing, r_exc, r_result>>
\* document_processor.py:63-66: rollback, then document.status = ERROR

ProcFlushError(r) ==
    /\ r_pc[r] = "proc_error_flush"
    /\ docLock \in {None, r}
    /\ docLock' = r
    /\ r_txStatus' = [r_txStatus EXCEPT ![r] = "error"]
    /\ r_pc' = [r_pc EXCEPT ![r] = "http500"]
    /\ UNCHANGED <<promptVars, indexVars, searchVars, chunkVars, llmVars, chatVars, docStatus, docText, chunkRows, embRows,
                   nextChunkId, nextEmbId, r_doc, r_status, r_delChunks, r_delEmb,
                   r_newChunks, r_newEmb, r_chunks, r_failing, r_added, r_exc, r_result>>
\* document_processor.py:67-68: the ERROR status is flushed in a new transaction and
\* the exception is raised again, into the router's except branch

ProcFlushErrorFails(r) ==
    /\ r_pc[r] = "proc_error_flush"
    /\ Goto(r, "http500", "DatabaseError")
\* that flush raises in its turn

RouterCommit(r) ==
    /\ r_pc[r] = "commit"
    /\ docStatus' = IF r_txStatus[r] = "unwritten" THEN docStatus ELSE r_txStatus[r]
    /\ chunkRows' = {c \in chunkRows : c.id \notin r_delChunks[r]} \cup r_newChunks[r]
    /\ embRows' = {e \in embRows : e.id \notin r_delEmb[r]} \cup r_newEmb[r]
    /\ docLock' = IF docLock = r THEN None ELSE docLock
    /\ r_txStatus' = [r_txStatus EXCEPT ![r] = "unwritten"]
    /\ r_delChunks' = [r_delChunks EXCEPT ![r] = {}]
    /\ r_delEmb' = [r_delEmb EXCEPT ![r] = {}]
    /\ r_newChunks' = [r_newChunks EXCEPT ![r] = {}]
    /\ r_newEmb' = [r_newEmb EXCEPT ![r] = {}]
    /\ r_pc' = [r_pc EXCEPT ![r] = "done"]
    /\ UNCHANGED <<promptVars, indexVars, searchVars, chunkVars, llmVars, chatVars, docText, nextChunkId, nextEmbId, r_doc, r_status,
                   r_chunks, r_failing, r_added, r_exc, r_result>>
\* documents.py:161-172: the request's only commit, then the response

RouterCommitFails(r) ==
    /\ r_pc[r] = "commit"
    /\ Goto(r, "http500", "DatabaseError")

Http500(r) ==
    /\ r_pc[r] = "http500"
    /\ docLock' = IF docLock = r THEN None ELSE docLock
    /\ r_txStatus' = [r_txStatus EXCEPT ![r] = "unwritten"]
    /\ r_delChunks' = [r_delChunks EXCEPT ![r] = {}]
    /\ r_delEmb' = [r_delEmb EXCEPT ![r] = {}]
    /\ r_newChunks' = [r_newChunks EXCEPT ![r] = {}]
    /\ r_newEmb' = [r_newEmb EXCEPT ![r] = {}]
    /\ r_pc' = [r_pc EXCEPT ![r] = "failed"]
    /\ chunkRows' = after_rollback(chunkRows, r_delChunks[r], r_newChunks[r])
    /\ embRows' = after_rollback(embRows, r_delEmb[r], r_newEmb[r])
    /\ UNCHANGED <<promptVars, indexVars, searchVars, chunkVars, llmVars, chatVars, docStatus, docText,
                   nextChunkId, nextEmbId, r_doc, r_status, r_chunks, r_failing, r_added,
                   r_exc, r_result>>
\* documents.py:174-181 raises HTTPException without a commit, and get_db closes the
\* session (database.py:32-33): the open transaction is rolled back

InitIngest ==
    /\ index = {}
    /\ SearchIdle
    /\ PromptIdle
    /\ ChatIdle
    /\ ChunkIdle
    /\ StreamIdle
    /\ docStatus \in Statuses
    /\ docText \in Texts
    /\ chunkRows = {}
    /\ embRows = {}
    /\ nextChunkId = 1
    /\ nextEmbId = 1
    /\ docLock = None
    /\ r_pc = [r \in Requests |-> "idle"]
    /\ r_doc = [r \in Requests |-> None]
    /\ r_status = [r \in Requests |-> "unloaded"]
    /\ r_txStatus = [r \in Requests |-> "unwritten"]
    /\ r_delChunks = [r \in Requests |-> {}]
    /\ r_delEmb = [r \in Requests |-> {}]
    /\ r_newChunks = [r \in Requests |-> {}]
    /\ r_newEmb = [r \in Requests |-> {}]
    /\ r_chunks = [r \in Requests |-> <<>>]
    /\ r_failing = [r \in Requests |-> {}]
    /\ r_added = [r \in Requests |-> <<>>]
    /\ r_exc = [r \in Requests |-> "none"]
    /\ r_result = [r \in Requests |-> <<None, None>>]
\* a registered document in any status a row can hold (the DocumentProcessor kept in
\* rag.py:28-71 commits processing and error), nothing derived from it yet

NextIngest ==
    \E r \in Requests :
        \/ IngestRequest(r)
        \/ SelectDocument(r)
        \/ Download(r)
        \/ DownloadFails(r)
        \/ ProcSetProcessing(r)
        \/ ProcDeleteOld(r)
        \/ ProcExtract(r)
        \/ ProcExtractEmpty(r)
        \/ ProcCreateChunks(r)
        \/ ProcEmbed(r)
        \/ ProcSetProcessed(r)
        \/ ProcStepFails(r)
        \/ ProcRollback(r)
        \/ ProcFlushError(r)
        \/ ProcFlushErrorFails(r)
        \/ RouterCommit(r)
        \/ RouterCommitFails(r)
        \/ Http500(r)

SpecIngest == InitIngest /\ [][NextIngest]_vars

(***************************************************************************)
(* Calls of search_similar_chunks on any index (rag.py:182-220).           *)
(***************************************************************************)
Distances == {0, 1}
\* cosine distances of the stored vectors to the query vector, as ranks

IndexStates ==
    {{[id |-> i, owner |-> f[i].owner, filename |-> f[i].owner,
       content |-> IF i = 1 THEN 1 ELSE 2, dist |-> f[i].dist, emb |-> f[i].emb] :
          i \in 1 .. MaxChunks} :
        f \in [1 .. MaxChunks -> [owner : Users, dist : Distances, emb : BOOLEAN]]}
\* MaxChunks chunks, each of a document of some user, at some distance from the
\* query vector, with or without an Embedding row.  Every user has one document,
\* whose filename is numbered as the user is; the first chunk has one text and all
\* the others share another, so that equal texts meet in one result

SearchSimilarChunks ==
    /\ ~s_called
    /\ \E user_id \in Users \cup {None, 0}, top_k \in {1, 2, RAGService_top_k} :
          /\ s_user' = user_id
          /\ s_top_k' = top_k
          /\ \/ /\ s_raised' = FALSE
                /\ s_result' \in search_similar_chunks(index, user_id, top_k)
             \/ /\ s_raised' = TRUE
                /\ s_result' = <<>>
    /\ s_called' = TRUE
    /\ UNCHANGED <<promptVars, indexVars, chunkVars, llmVars, chatVars, ingestVars, s_context,
                   s_assembled>>
\* one call, with any arguments, returning any list the query can return, or []
\* from the except branch when the query raised (rag.py:218-220)

RetrieveContextAssemble ==
    /\ s_called /\ ~s_assembled
    /\ s_context' = context_of(s_result)
    /\ s_assembled' = TRUE
    /\ UNCHANGED <<promptVars, indexVars, chunkVars, llmVars, chatVars, ingestVars, s_user, s_top_k,
                   s_result, s_called, s_raised>>
\* rag.py:240-254: retrieve_context turns the list it got into the context

InitSearch ==
    /\ index \in IndexStates
    /\ SearchIdle
    /\ PromptIdle
    /\ ChatIdle
    /\ IngestIdle
    /\ ChunkIdle
    /\ StreamIdle

NextSearch ==
    \/ SearchSimilarChunks
    \/ RetrieveContextAssemble

SpecSearch == InitSearch /\ [][NextSearch]_vars

\* C8: a search given a user's id as owner filter returns no chunk of a document
\* owned by another user, at whatever distance those chunks are.
C8_RetrievalScoped ==
    (s_called /\ s_user \in Users) =>
        \A i \in 1 .. Len(s_result) : s_result[i].owner = s_user

C8_Witness ==
    /\ s_called /\ s_user \in Users /\ s_result # <<>>
    /\ \E c \in index :
          /\ c.owner # s_user /\ c.emb
          /\ \A i \in 1 .. Len(s_result) : c.dist < s_result[i].dist

EligibleCount(user_id) == Cardinality(Eligible(index, user_id))
\* E: the chunks with an embedding that pass the owner filter

\* C21: a search whose query did not raise returns exactly min(k, E) chunks, in
\* order of non-decreasing distance, all of them eligible and none twice, and every
\* eligible chunk left out is at least as far as every chunk returned.
C21_TopKOfEligible ==
    (s_called /\ ~s_raised /\ s_user \in Users \cup {None}) =>
        /\ Len(s_result) = Min(s_top_k, EligibleCount(s_user))
        /\ \A i \in 1 .. Len(s_result) : s_result[i] \in Eligible(index, s_user)
        /\ \A i, j \in 1 .. Len(s_result) :
               /\ i < j => s_result[i].dist <= s_result[j].dist
               /\ s_result[i] = s_result[j] => i = j
        /\ \A c \in Eligible(index, s_user) \ Range(s_result) :
               \A i \in 1 .. Len(s_result) : s_result[i].dist <= c.dist

C21_Witness ==
    /\ s_called /\ ~s_raised /\ s_user \in Users /\ s_top_k = 2
    /\ Len(s_result) = 2
    /\ s_result[1].dist < s_result[2].dist
    /\ \E c \in index : c.emb /\ c.owner # s_user /\ c.dist < s_result[2].dist

Before(c, d) == c.dist < d.dist \/ (c.dist = d.dist /\ c.id < d.id)
\* c sorts before d by distance, then chunk id

\* C32: a search returns, for a given index, owner filter and k, one list only: the
\* eligible chunks in order of distance and, at equal distance, of chunk id, cut
\* at k; so that two calls on the same state give the same list.
C32_TiesByChunkId ==
    (s_called /\ ~s_raised) =>
        /\ \A i, j \in 1 .. Len(s_result) : i < j => Before(s_result[i], s_result[j])
        /\ \A c \in Eligible(index, s_user) \ Range(s_result) :
               \A i \in 1 .. Len(s_result) : Before(s_result[i], c)

\* C35: the context assembled for a caller holds only chunks of documents the
\* caller owns, whoever the caller is: a user, an anonymous caller (user_id None)
\* or a caller whose id is 0; chunks of other users' documents never reach it.
C35_ContextOwnedByCaller ==
    s_assembled =>
        /\ \A i \in 1 .. Len(s_result) : s_result[i].owner = s_user
        /\ \A i \in 1 .. Len(s_context.parts) :
               s_context.parts[i].kind = "Documento" => s_context.parts[i].v = s_user

\* C25: the context made of an empty list of chunks is absent, not an empty text;
\* the context made of n chunks is a text of exactly n rendered parts in retrieval
\* order, the i-th being the filename tag of the i-th chunk's document followed by
\* that chunk's content, with the delimiter between consecutive parts and nowhere
\* else; chunks of equal text are each rendered and nothing is cut.
C25_ContextAssembly ==
    s_assembled =>
        LET n == Len(s_result)
            text == s_context.parts
        IN  IF n = 0
            THEN s_context.absent
            ELSE /\ ~s_context.absent
                 /\ Len(text) = 3 * n - 1
                 /\ \A i \in 1 .. n :
                        /\ text[3 * i - 2] = [kind |-> "Documento", v |-> s_result[i].filename]
                        /\ text[3 * i - 1] = [kind |-> "content", v |-> s_result[i].content]
                        /\ i < n => text[3 * i] = [kind |-> "---", v |-> 0]

C25_Witness ==
    /\ s_assembled /\ ~s_context.absent
    /\ Len(s_result) = 3 /\ Len(s_context.parts) = 8
    /\ \E i, j \in 1 .. 3 :
          /\ i < j
          /\ s_result[i].content = s_result[j].content
          /\ s_result[i].filename = s_result[j].filename
    /\ s_result[1].filename # s_result[2].filename

(***************************************************************************)
(* One call of _create_chunks on any text with any valid chunk_size and    *)
(* chunk_overlap, one loop iteration per step                              *)
(* (document_processor.py:133-174).                                        *)
(***************************************************************************)
MaxLen == 6
\* length of the texts chunked

MaxSize == 5
\* largest chunk_size tried

MaxIterations == 8
\* loop iterations followed before the model stops looking at a call

Alphabet == {"a", ".", " ", "\n"}
\* a letter, the period and the newline the cut looks for, and a blank; the newline
\* is white space too

RECURSIVE TextsOfLen(_)
TextsOfLen(n) ==
    IF n = 0 THEN {<<>>}
    ELSE {Append(t, ch) : t \in TextsOfLen(n - 1), ch \in Alphabet}

Example == <<"A", ".", " ", "B", ".", " ", "C", ".">>
\* the text "A. B. C."

ChunkTexts == UNION {TextsOfLen(n) : n \in 0 .. MaxLen} \cup {Example}

ChunkLoop ==
    /\ k_pc = "loop"
    /\ k_start < Len(k_text)
    /\ strip(PySlice(k_text, k_start, k_start + k_L)) # <<>>
    /\ Len(k_chunks) < MaxIterations
    /\ k_chunks' = Append(k_chunks, Chunk(k_text, k_L, k_start, k_index))
    /\ k_start' = next_start(WindowEnd(k_text, k_L, k_start), k_O)
    /\ k_index' = next_index(k_index)
    /\ UNCHANGED <<promptVars, indexVars, searchVars, chatVars, ingestVars, llmVars,
                   k_text, k_L, k_O, k_pc>>
\* one iteration that appends a chunk and moves the window (lines 137-171)

ChunkBreak ==
    /\ k_pc = "loop"
    /\ k_start < Len(k_text)
    /\ strip(PySlice(k_text, k_start, k_start + k_L)) = <<>>
    /\ k_pc' = "returned"
    /\ UNCHANGED <<promptVars, indexVars, searchVars, chatVars, ingestVars, llmVars,
                   k_text, k_L, k_O, k_start, k_index, k_chunks>>
\* lines 143-144: the window holds white space only, break

ChunkLoopEnd ==
    /\ k_pc = "loop"
    /\ ~(k_start < Len(k_text))
    /\ k_pc' = "returned"
    /\ UNCHANGED <<promptVars, indexVars, searchVars, chatVars, ingestVars, llmVars,
                   k_text, k_L, k_O, k_start, k_index, k_chunks>>
\* line 137: the while condition fails

InitChunk ==
    /\ index = {}
    /\ SearchIdle
    /\ PromptIdle
    /\ ChatIdle
    /\ IngestIdle
    /\ StreamIdle
    /\ k_text \in ChunkTexts
    /\ k_L \in 1 .. MaxSize
    /\ k_O \in 0 .. MaxSize - 1
    /\ k_O < k_L
    /\ k_start = 0
    /\ k_index = 0
    /\ k_chunks = <<>>
    /\ k_pc = "loop"
\* lines 133-135, for any text and any pair with 0 <= chunk_overlap < chunk_size

NextChunk == ChunkLoop \/ ChunkBreak \/ ChunkLoopEnd

SpecChunk == InitChunk /\ [][NextChunk]_vars

(***************************************************************************)
(* One call of LLMService.stream_chat that reaches the provider            *)
(* (llm.py:83-124): the worker thread iterates the provider's response and *)
(* hands each text to the event loop with run_coroutine_threadsafe; the    *)
(* loop runs the handed queue.put coroutines in the order they were        *)
(* handed; the generator takes from the queue and yields.                  *)
(***************************************************************************)
MaxStream == 3
\* chunks the provider's response iterates over at most

Fragments == {"", "a", "b"}
\* chunk.text values: empty, or one of two texts

RECURSIVE StreamsOfLen(_)
StreamsOfLen(n) ==
    IF n = 0 THEN {<<>>}
    ELSE {Append(t, x) : t \in StreamsOfLen(n - 1), x \in Fragments}

Item(text) == [sentinel |-> FALSE, text |-> text]
\* a str put on the queue

Sentinel == [sentinel |-> TRUE, text |-> ""]
\* the None put on the queue

put(ready, item) == Append(ready, item)
\* asyncio.run_coroutine_threadsafe(queue.put(item), loop): the loop runs what it is
\* handed first in, first out, and a put on an unbounded queue does not wait

on_finally_nothing(ready) == ready

on_finally(ready) == put(ready, Sentinel)
\* llm.py:110-114, the finally branch of the worker: queue.put(None) handed over

RunInExecutor ==
    /\ g_cpc = "new"
    /\ g_cpc' = "waiting"
    /\ g_wpc' = "started"
    /\ UNCHANGED <<promptVars, indexVars, searchVars, chatVars, ingestVars, chunkVars,
                   g_stream, g_raises, g_pos, g_ready, g_queue, g_yielded>>
\* llm.py:84-117: the queue is made and the worker is started in a thread

WorkerCall ==
    /\ g_wpc = "started"
    /\ g_wpc' = IF g_raises = 0 THEN "except" ELSE "iterating"
    /\ UNCHANGED <<promptVars, indexVars, searchVars, chatVars, ingestVars, chunkVars,
                   g_stream, g_raises, g_pos, g_ready, g_queue, g_yielded, g_cpc>>
\* llm.py:89-96: generate_content_stream returns the response, or raises

WorkerNext ==
    /\ g_wpc = "iterating"
    /\ g_pos < Len(g_stream)
    /\ g_raises # g_pos
    /\ g_pos' = g_pos + 1
    /\ g_ready' = IF g_stream[g_pos + 1] # ""
                  THEN put(g_ready, Item(g_stream[g_pos + 1]))
                  ELSE g_ready
    /\ UNCHANGED <<promptVars, indexVars, searchVars, chatVars, ingestVars, chunkVars,
                   g_stream, g_raises, g_wpc, g_queue, g_yielded, g_cpc>>
\* llm.py:98-103: the next chunk; its text is handed over if it is not empty

WorkerRaise ==
    /\ g_wpc = "iterating"
    /\ g_raises = g_pos
    /\ g_wpc' = "except"
    /\ UNCHANGED <<promptVars, indexVars, searchVars, chatVars, ingestVars, chunkVars,
                   g_stream, g_raises, g_pos, g_ready, g_queue, g_yielded, g_cpc>>
\* the response raises while it is iterated

WorkerExcept ==
    /\ g_wpc = "except"
    /\ g_ready' = put(g_ready, Item(PROVIDER_ERROR))
    /\ g_wpc' = "finally"
    /\ UNCHANGED <<promptVars, indexVars, searchVars, chatVars, ingestVars, chunkVars,
                   g_stream, g_raises, g_pos, g_queue, g_yielded, g_cpc>>
\* llm.py:105-109: the exception's text is handed over as one more item

WorkerStreamEnd ==
    /\ g_wpc = "iterating"
    /\ g_pos = Len(g_stream)
    /\ g_raises # g_pos
    /\ g_wpc' = "finally"
    /\ UNCHANGED <<promptVars, indexVars, searchVars, chatVars, ingestVars, chunkVars,
                   g_stream, g_raises, g_pos, g_ready, g_queue, g_yielded, g_cpc>>
\* the for loop ends

WorkerFinally ==
    /\ g_wpc = "finally"
    /\ g_ready' = on_finally(g_ready)
    /\ g_wpc' = "exited"
    /\ UNCHANGED <<promptVars, indexVars, searchVars, chatVars, ingestVars, chunkVars,
                   g_stream, g_raises, g_pos, g_queue, g_yielded, g_cpc>>
\* llm.py:110-114: None is handed over last

LoopRunsPut ==
    /\ g_ready # <<>>
    /\ g_queue' = Append(g_queue, Head(g_ready))
    /\ g_ready' = Tail(g_ready)
    /\ UNCHANGED <<promptVars, indexVars, searchVars, chatVars, ingestVars, chunkVars,
                   g_stream, g_raises, g_pos, g_wpc, g_yielded, g_cpc>>
\* the event loop runs the oldest queue.put it was handed

QueueGetYield ==
    /\ g_cpc = "waiting"
    /\ g_queue # <<>>
    /\ ~Head(g_queue).sentinel
    /\ g_yielded' = Append(g_yielded, Head(g_queue).text)
    /\ g_queue' = Tail(g_queue)
    /\ UNCHANGED <<promptVars, indexVars, searchVars, chatVars, ingestVars, chunkVars,
                   g_stream, g_raises, g_pos, g_wpc, g_ready, g_cpc>>
\* llm.py:120-124: item = await queue.get(); yield item

QueueGetNone ==
    /\ g_cpc = "waiting"
    /\ g_queue # <<>>
    /\ Head(g_queue).sentinel
    /\ g_queue' = Tail(g_queue)
    /\ g_cpc' = "returned"
    /\ UNCHANGED <<promptVars, indexVars, searchVars, chatVars, ingestVars, chunkVars,
                   g_stream, g_raises, g_pos, g_wpc, g_ready, g_yielded>>
\* llm.py:122-123: item is None, break

InitStream ==
    /\ index = {}
    /\ SearchIdle
    /\ PromptIdle
    /\ ChatIdle
    /\ IngestIdle
    /\ ChunkIdle
    /\ g_stream \in UNION {StreamsOfLen(n) : n \in 0 .. MaxStream}
    /\ g_raises \in {None} \cup (0 .. Len(g_stream))
    /\ g_pos = 0
    /\ g_wpc = "idle"
    /\ g_ready = <<>>
    /\ g_queue = <<>>
    /\ g_yielded = <<>>
    /\ g_cpc = "new"
\* a call past the refusal gate with a client configured, for any response the
\* provider may give and any point at which it may raise

NextStream ==
    \/ RunInExecutor
    \/ WorkerCall
    \/ WorkerNext
    \/ WorkerRaise
    \/ WorkerExcept
    \/ WorkerStreamEnd
    \/ WorkerFinally
    \/ LoopRunsPut
    \/ QueueGetYield
    \/ QueueGetNone

SpecStream == InitStream /\ [][NextStream]_vars

Worker ==
    \/ WorkerCall
    \/ WorkerNext
    \/ WorkerRaise
    \/ WorkerExcept
    \/ WorkerStreamEnd
    \/ WorkerFinally
\* the steps of the worker thread

Consumer ==
    \/ RunInExecutor
    \/ QueueGetYield
    \/ QueueGetNone
\* the steps of the generator, which the event loop runs

SpecStreamFair ==
    /\ SpecStream
    /\ WF_vars(Worker)
    /\ WF_vars(LoopRunsPut)
    /\ WF_vars(Consumer)
\* the executor keeps running the worker thread, and the event loop keeps running
\* the coroutines handed to it and the generator awaiting the queue


(***************************************************************************)
(* The prompt of one authenticated turn on a conversation holding any      *)
(* messages (chat_orchestrator.py:46-56, 72-78 and llm.py:49-96).          *)
(***************************************************************************)
MaxStored == 11
\* messages the conversation holds before the turn

Roles == {"user", "assistant"}
\* the roles the orchestrator stores (chat_orchestrator.py:48, 93)

StoredOfLen(n) ==
    {[i \in 1 .. n |-> [role |-> f[i], content |-> i]] : f \in [1 .. n -> Roles]}
\* n messages in order of created_at, the i-th with content i

PromptPersistUser ==
    /\ p_pc = "persist_user"
    /\ p_stored' = Append(p_stored, [role |-> "user", content |-> p_user_message])
    /\ p_pc' = "history"
    /\ UNCHANGED <<indexVars, searchVars, chunkVars, llmVars, chatVars, ingestVars,
                   p_user_message, p_messages, p_last_user_message, p_history,
                   p_contents>>
\* chat_orchestrator.py:46-52: the user message is added and flushed, so the
\* queries of the same session see it

PromptBuildHistory ==
    /\ p_pc = "history"
    /\ p_messages' = Append(build_message_history(p_stored, history_limit),
                            [role |-> "user", content |-> p_user_message])
    /\ p_pc' = "stream"
    /\ UNCHANGED <<indexVars, searchVars, chunkVars, llmVars, chatVars, ingestVars,
                   p_stored, p_user_message, p_last_user_message, p_history,
                   p_contents>>
\* chat_orchestrator.py:55-56: messages = _build_message_history(...), then
\* messages.append({"role": "user", "content": user_message})

PromptCallProvider ==
    /\ p_pc = "stream"
    /\ LET r == split_messages(p_messages)
       IN  /\ p_last_user_message' = r.last_user_message
           /\ p_history' = r.history
           /\ p_contents' = full_prompt(r.history, r.last_user_message)
    /\ p_pc' = "called"
    /\ UNCHANGED <<indexVars, searchVars, chunkVars, llmVars, chatVars, ingestVars,
                   p_stored, p_user_message, p_messages>>
\* llm.py:49-96: the loop over messages, full_prompt, and the worker's
\* generate_content_stream(contents=full_prompt)

InitPrompt ==
    /\ index = {}
    /\ SearchIdle
    /\ ChatIdle
    /\ IngestIdle
    /\ ChunkIdle
    /\ StreamIdle
    /\ p_stored \in UNION {StoredOfLen(n) : n \in 0 .. MaxStored}
    /\ p_user_message = Len(p_stored) + 1
    /\ p_messages = <<>>
    /\ p_last_user_message = None
    /\ p_history = <<>>
    /\ p_contents = <<>>
    /\ p_pc = "persist_user"
\* a turn of an authenticated user whose conversation is resolved, on a conversation
\* holding any sequence of user and assistant messages

NextPrompt ==
    \/ PromptPersistUser
    \/ PromptBuildHistory
    \/ PromptCallProvider

SpecPrompt == InitPrompt /\ [][NextPrompt]_vars

LastN(s, n) == SubSeq(s, Len(s) - Min(n, Len(s)) + 1, Len(s))
\* the last n elements of s, all of s when it has fewer

\* C30: once the provider is called for an authenticated turn, the history the
\* generation step was given is the conversation's last 10 persisted messages,
\* oldest first, and each of them is in what the provider was handed, in that
\* order and with role user or assistant.
C30_HistoryHandedToProvider ==
    p_pc = "called" =>
        LET expected == LastN(p_stored, history_limit)
        IN  /\ SubSeq(p_messages, 1, Len(p_messages) - 1) = expected
            /\ \E f \in [1 .. Len(expected) -> 1 .. Len(p_contents)] :
                   /\ \A i, j \in 1 .. Len(expected) : i < j => f[i] < f[j]
                   /\ \A i \in 1 .. Len(expected) :
                          /\ p_contents[f[i]].content = expected[i].content
                          /\ p_contents[f[i]].role = expected[i].role
                          /\ p_contents[f[i]].role \in Roles

\* C33: the question in the prompt sent to the provider is the user message of the
\* current turn, whatever the conversation holds; it is never an earlier user
\* message of the history.
C33_QuestionIsCurrentMessage ==
    p_pc = "called" =>
        /\ p_last_user_message = p_user_message
        /\ p_contents[Len(p_contents)] = [role |-> "user", content |-> p_user_message]

Occurrences(msgs, content) ==
    Cardinality({i \in 1 .. Len(msgs) : msgs[i].role = "user" /\ msgs[i].content = content})

\* C34: in the list of messages handed to stream_chat for an authenticated turn the
\* turn's user message occurs exactly once, as the last element.
C34_CurrentMessageOnce ==
    p_pc \in {"stream", "called"} =>
        /\ p_messages # <<>>
        /\ p_messages[Len(p_messages)] = [role |-> "user", content |-> p_user_message]
        /\ Occurrences(p_messages, p_user_message) = 1

(***************************************************************************)
(* Properties of ingestion.                                                *)
(***************************************************************************)
InRun(r) == r_txStatus[r] \in {"processing", "processed"}
\* r has set the status to processing and its run has neither been committed nor
\* rolled back

Admitted(r) == r_pc[r] = "select" /\ r_pc'[r] = "download"
\* the step in which the processing-status guard lets r through

\* C3: at most one request on the document is between 'status set to processing'
\* and 'run finished', because a request that arrives in between is rejected by the
\* processing-status guard.
C3_GuardSerializesRuns ==
    /\ [](\A r, q \in Requests : (InRun(r) /\ InRun(q)) => r = q)
    /\ [][\A r, q \in Requests : (Admitted(r) /\ q # r) => ~InRun(q)]_vars

RunCompleted(r) == r_pc[r] \in {"commit", "done"}
\* process_document has returned its pair

HasEmbedding(embs, c) == \E e \in embs : e.chunk_id = c.id

\* C4: a run in which create_embedding raised for the set F of chunks, and nothing
\* else raised, completes with status processed and returns
\* (chunks_created, chunks_created - |F|); once committed, every chunk of the run
\* outside F has an Embedding row and no chunk in F has one.
C4_EmbeddingFailureIsolated ==
    \A r \in Requests :
        RunCompleted(r) =>
            /\ r_status[r] = "processed"
            /\ r_result[r] = <<Len(r_chunks[r]),
                               Len(r_chunks[r]) - Cardinality(r_failing[r])>>
            /\ r_pc[r] = "commit" =>
                   \A c \in Range(r_chunks[r]) :
                       HasEmbedding(r_newEmb[r], c) <=> c.chunk_index \notin r_failing[r]
            /\ r_pc[r] = "done" =>
                   /\ docStatus = "processed"
                   /\ \A c \in Range(r_chunks[r]) \cap chunkRows :
                          HasEmbedding(embRows, c) <=> c.chunk_index \notin r_failing[r]

C4_Witness ==
    \E r \in Requests :
        /\ r_pc[r] = "done"
        /\ Cardinality(r_failing[r]) = 1
        /\ Len(r_chunks[r]) = 3
        /\ r_result[r] = <<3, 2>>
        /\ Range(r_chunks[r]) \subseteq chunkRows
        /\ Cardinality(embRows) = 2

Later(r, q) ==
    /\ r_pc[r] = "done" /\ r_pc[q] = "done" /\ r # q
    /\ \A c \in Range(r_chunks[r]), d \in Range(r_chunks[q]) : c.id > d.id
\* both runs succeeded and r made its chunks after q had made its own

\* C5: two successful runs on the document with the same embedding outcomes return
\* the same pair, and the committed chunks and embeddings are exactly those of the
\* later run: nothing of the earlier run is left, no chunk_index occurs twice and
\* every embedding belongs to a stored chunk.
C5_ReingestionReplaces ==
    /\ \A r, q \in Requests :
           (r_pc[r] = "done" /\ r_pc[q] = "done" /\ r_failing[r] = r_failing[q]) =>
               r_result[r] = r_result[q]
    /\ \A r, q \in Requests :
           (Later(r, q) /\ r_chunks[r] # <<>>) =>
               /\ chunkRows = Range(r_chunks[r])
               /\ {e.chunk_id : e \in embRows} = Range(r_added[r])
               /\ Cardinality(embRows) = Len(r_added[r])
    /\ (\E r \in Requests : r_pc[r] = "done") =>
           /\ \A c, d \in chunkRows : c.chunk_index = d.chunk_index => c = d
           /\ \A e \in embRows : \E c \in chunkRows : c.id = e.chunk_id

C5_Witness ==
    \E r, q \in Requests :
        /\ Later(r, q)
        /\ Len(r_chunks[q]) = 3 /\ Len(r_chunks[r]) = 3
        /\ r_failing[r] = r_failing[q] /\ Cardinality(r_failing[r]) = 1
        /\ r_result[r] = <<3, 2>>
        /\ chunkRows = Range(r_chunks[r])

RunFailed(r) == r_pc[r] = "failed" /\ r_status[r] = "error"
\* the request has ended and its process_document went through the except branch

\* C6: after a request whose run raised (anything but an isolated embedding
\* failure) the committed rows hold no chunk or embedding written by that run and
\* the document's committed status is error.
C6_FailedRunLeavesError ==
    \A r \in Requests :
        RunFailed(r) =>
            /\ docStatus = "error"
            /\ Range(r_chunks[r]) \cap chunkRows = {}
            /\ \A e \in embRows : e.chunk_id \notin {c.id : c \in Range(r_chunks[r])}

\* C7: a run whose extracted text is empty returns (0, 0), leaves the document's
\* status at error and creates no chunk and no embedding.
C7_EmptyTextReturnsZero ==
    \A r \in Requests :
        (r_pc[r] = "failed" /\ r_exc[r] = "No text extracted") =>
            /\ r_result[r] = <<0, 0>>
            /\ docStatus = "error"
            /\ r_chunks[r] = <<>> /\ r_added[r] = <<>>

\* C13: after a successful ingestion the document's persisted chunk_index values
\* are exactly 0 .. N-1, each once, N being the number of chunks stored, and the
\* run assigned them in strictly increasing order of emission (the i-th chunk
\* emitted has index i-1 and was added i-th).
C13_ChunkIndexDense ==
    /\ (\E r \in Requests : r_pc[r] = "done") =>
           /\ {c.chunk_index : c \in chunkRows} = 0 .. Cardinality(chunkRows) - 1
           /\ \A c, d \in chunkRows : c.chunk_index = d.chunk_index => c = d
    /\ \A r \in Requests :
           RunCompleted(r) =>
               /\ \A i \in 1 .. Len(r_chunks[r]) : r_chunks[r][i].chunk_index = i - 1
               /\ \A i, j \in 1 .. Len(r_chunks[r]) :
                      i < j => r_chunks[r][i].id < r_chunks[r][j].id
               /\ r_result[r][1] = Len(r_chunks[r])

C13_Witness ==
    \E r \in Requests :
        /\ r_pc[r] = "done"
        /\ Len(r_chunks[r]) = 3
        /\ chunkRows = Range(r_chunks[r])
        /\ {c.chunk_index : c \in chunkRows} = {0, 1, 2}

NothingWritten(r) ==
    /\ r_txStatus[r] = "unwritten"
    /\ r_delChunks[r] = {} /\ r_delEmb[r] = {}
    /\ r_newChunks[r] = {} /\ r_newEmb[r] = {}
    /\ r_chunks[r] = <<>> /\ r_added[r] = <<>>
    /\ docLock # r
\* the session of r has written no status, deleted no row and made no row

Selects(r) == r_pc[r] = "select" /\ r_doc[r] = TheDocument /\ r_pc'[r] # "select"
\* the step in which r loads the document and tests its status

\* C22: an ingest request that finds the document's persisted status to be
\* processing ends with the 400 answer, and neither the step that rejects it nor
\* anything after changes the persisted status, a stored chunk or embedding, or
\* makes a new one: the request stays at its answer with nothing written.
C22_ProcessingRejected ==
    /\ [](\A r \in Requests : r_pc[r] = "http400" =>
              r_status[r] = "processing" /\ NothingWritten(r))
    /\ [][\A r \in Requests :
              /\ (Selects(r) /\ docStatus = "processing") =>
                     /\ r_pc'[r] = "http400"
                     /\ UNCHANGED <<docStatus, chunkRows, embRows, docLock>>
              /\ r_pc[r] = "http400" => r_pc'[r] = "http400"]_vars

C22_Witness ==
    \E r \in Requests :
        /\ r_pc[r] = "http400" /\ docStatus = "processing"
        /\ r_status[r] = "processing" /\ NothingWritten(r)

Chunking(r) ==
    r_pc[r] \in {"proc_delete", "proc_extract", "proc_chunks", "proc_embed", "proc_finish"}
\* r has set the status to processing and its run is deleting, extracting,
\* chunking or embedding

\* C23: while a run is past setting the status to processing (deleting old chunks,
\* extracting, chunking, embedding), the document's persisted status, the one other
\* sessions read and a crash leaves behind, is processing.
C23_ProcessingDurable ==
    \A r \in Requests : Chunking(r) => docStatus = "processing"

\* C29: in every committed state each chunk has at most one Embedding row and every
\* Embedding row references a stored chunk.
C29_EmbeddingPerChunk ==
    /\ \A e, f \in embRows : e.chunk_id = f.chunk_id => e = f
    /\ \A e \in embRows : \E c \in chunkRows : c.id = e.chunk_id

C29_Witness ==
    \E r, q \in Requests :
        /\ Later(r, q)
        /\ r_added[q] # <<>> /\ r_added[r] # <<>>
        /\ Len(r_chunks[r]) >= 2
        /\ {e.chunk_id : e \in embRows} = Range(r_added[r])
        /\ Range(r_added[q]) \cap {e.chunk_id : e \in embRows} = {}

\* C37: a request that fails leaves the stored chunks and embeddings as they were
\* before it, also when its run had already deleted the old ones and made new
\* ones: no step of a request other than its commit changes the stored rows, a
\* failed request has nothing pending, and after a successful run and a failed
\* one the stored rows are exactly those of the successful run.
C37_RollbackRestores ==
    /\ [](\A r \in Requests :
              r_pc[r] = "failed" =>
                  /\ r_delChunks[r] = {} /\ r_delEmb[r] = {}
                  /\ r_newChunks[r] = {} /\ r_newEmb[r] = {}
                  /\ \A q \in Requests :
                         r_pc[q] = "done" =>
                             /\ chunkRows = Range(r_chunks[q])
                             /\ {e.chunk_id : e \in embRows} = Range(r_added[q]))
    /\ [][\A r \in Requests :
              (r_pc'[r] # r_pc[r] /\ r_pc'[r] # "done") =>
                  chunkRows' = chunkRows /\ embRows' = embRows]_vars

C37_Witness ==
    \E r, q \in Requests :
        /\ r_pc[q] = "done" /\ r_pc[r] = "failed"
        /\ r_chunks[q] # <<>> /\ r_added[q] # <<>>
        /\ r_chunks[r] # <<>>
        /\ \A c \in Range(r_chunks[r]), d \in Range(r_chunks[q]) : c.id > d.id
        /\ chunkRows = Range(r_chunks[q])
        /\ {e.chunk_id : e \in embRows} = Range(r_added[q])

Covered(chunks, i) ==
    \E j \in 1 .. Len(chunks) : chunks[j].start_char <= i /\ i < chunks[j].end_char
\* the character at 0-based position i lies in the range of some chunk

\* C12: when the chunker returns, the chunks' [start_char, end_char) ranges cover
\* the text: the first starts at 0, each next one starts no later than the one
\* before it ends, overlapping it by 0 to chunk_overlap characters, the last ends
\* at or after len(text), and every character that is not white space lies in
\* some chunk's range.
C12_ChunksCoverText ==
    k_pc = "returned" =>
        /\ k_chunks # <<>> =>
               /\ k_chunks[1].start_char = 0
               /\ \A j \in 1 .. Len(k_chunks) - 1 :
                      k_chunks[j].end_char - k_chunks[j + 1].start_char \in 0 .. k_O
               /\ k_chunks[Len(k_chunks)].end_char >= Len(k_text)
        /\ \A i \in 0 .. Len(k_text) - 1 :
               ~IsSpace(k_text[i + 1]) => Covered(k_chunks, i)

\* C26: for every text shorter than chunk_size that is not empty (stated here for
\* the texts that hold more than white space) the chunker returns exactly one
\* chunk.
C26_ShortTextOneChunk ==
    (k_pc = "returned" /\ strip(k_text) # <<>> /\ Len(k_text) < k_L) =>
        Len(k_chunks) = 1

\* C27: no chunk the chunker emits has empty content after trimming, also when the
\* window was cut at a period or a newline.
C27_NoEmptyChunk ==
    \A j \in 1 .. Len(k_chunks) : k_chunks[j].content # <<>>

\* C28: each chunk after the first starts chunk_overlap characters before the end
\* of the chunk emitted before it, so consecutive ranges overlap by exactly
\* chunk_overlap.
C28_AdvanceByEndMinusOverlap ==
    /\ \A j \in 1 .. Len(k_chunks) - 1 :
           k_chunks[j + 1].start_char = k_chunks[j].end_char - k_O
    /\ k_chunks # <<>> =>
           /\ k_chunks[1].start_char = 0
           /\ k_pc = "loop" => k_start = k_chunks[Len(k_chunks)].end_char - k_O

C28_Witness ==
    /\ k_pc = "returned" /\ Len(k_chunks) = 3 /\ k_O = 2
    /\ k_chunks[1].end_char < k_L
    /\ k_chunks[2].start_char = k_chunks[1].end_char - 2
    /\ k_chunks[3].start_char = k_chunks[2].end_char - 2

\* C36: every chunk emitted carries 0 <= start_char < end_char <= len(text) and
\* length = end_char - start_char, the final chunk, whose window reaches past the
\* end of the text, included.
C36_MetadataWithinText ==
    \A j \in 1 .. Len(k_chunks) :
        /\ 0 <= k_chunks[j].start_char
        /\ k_chunks[j].start_char < k_chunks[j].end_char
        /\ k_chunks[j].end_char <= Len(k_text)
        /\ k_chunks[j].length = k_chunks[j].end_char - k_chunks[j].start_char

(***************************************************************************)
(* Properties of stream_chat.                                              *)
(***************************************************************************)
RECURSIVE NonEmpty(_)
NonEmpty(s) ==
    IF s = <<>> THEN <<>>
    ELSE IF Head(s) = "" THEN NonEmpty(Tail(s)) ELSE <<Head(s)>> \o NonEmpty(Tail(s))
\* the texts of s that are not empty, in order

IsPrefix(s, t) == Len(s) <= Len(t) /\ s = SubSeq(t, 1, Len(s))

Produced == NonEmpty(SubSeq(g_stream, 1, g_pos))
\* the non-empty texts the provider's response has produced so far

\* C14: what stream_chat has yielded is always a prefix of the non-empty texts the
\* provider's response has produced, in the same order, and when stream_chat
\* returns it has yielded exactly those texts: nothing lost, doubled, reordered
\* or added on the way through the queue.
C14_FragmentsInProviderOrder ==
    /\ IsPrefix(g_yielded, Produced)
    /\ g_cpc = "returned" => g_yielded = Produced

InFlight == g_queue \o g_ready
\* the items handed over and not yet taken by the consumer, oldest first

Sentinels == Cardinality({i \in 1 .. Len(InFlight) : InFlight[i].sentinel})

\* C31: the worker hands over exactly one sentinel, as its last item, whether the
\* response ended or raised: none is in flight or taken before the worker's
\* finally branch, one was handed over once the worker has exited, and nothing
\* follows it.  Under fair scheduling of the worker and the event loop the
\* consumer takes the sentinel and stream_chat returns, and it yields nothing
\* after that.
C31_SentinelTerminates ==
    /\ [](/\ g_wpc # "exited" => Sentinels = 0 /\ g_cpc # "returned"
          /\ g_wpc = "exited" =>
                 Sentinels + (IF g_cpc = "returned" THEN 1 ELSE 0) = 1
          /\ Sentinels = 1 => InFlight[Len(InFlight)].sentinel
          /\ g_cpc = "returned" => InFlight = <<>>)
    /\ [][g_cpc = "returned" => g_yielded' = g_yielded /\ g_cpc' = "returned"]_vars
    /\ <>[](g_cpc = "returned")

C31_Witness ==
    /\ g_cpc = "returned" /\ g_wpc = "exited"
    /\ g_raises = 1 /\ Len(g_stream) = 3
    /\ g_yielded = <<g_stream[1], PROVIDER_ERROR>>

(***************************************************************************)
(* Properties of the chat turn.                                            *)
(***************************************************************************)
TurnMessages(t, role) == {m \in messages : m.turn = t /\ m.role = role}

Last(s) == s[Len(s)]

FailedAfterStreaming(t) ==
    t_pc[t] = "failed" /\ t_gen[t] = "exhausted"
\* the exception was raised after the async for had ended, i.e. while the
\* assistant message was being added and committed

\* C1: in every committed state a turn's user message is persisted if and only if
\* the same turn's assistant message is persisted, and a turn that failed after
\* streaming had completed has no message in the committed rows.
C1_AtomicTurnCommit ==
    \A t \in Turns :
        /\ (TurnMessages(t, "user") # {}) <=> (TurnMessages(t, "assistant") # {})
        /\ FailedAfterStreaming(t) =>
               TurnMessages(t, "user") = {} /\ TurnMessages(t, "assistant") = {}

C1_Witness ==
    \E t1, t2 \in Turns :
        /\ TurnMessages(t1, "user") # {} /\ TurnMessages(t1, "assistant") # {}
        /\ FailedAfterStreaming(t2) /\ t_user[t2] # None /\ t_content[t2] # <<>>
        /\ TurnMessages(t2, "user") = {}

\* C2: a run of stream_chat_response emits token events only until it ends, and it
\* ends with exactly one terminal event in last place: done when the try body ran
\* to its end, error when an exception was raised.
C2_OneTerminalEvent ==
    \A t \in Turns :
        /\ \A i \in 1 .. Len(t_events[t]) - 1 : t_events[t][i].event = "token"
        /\ t_pc[t] \notin {"finished", "failed"} =>
               \A i \in 1 .. Len(t_events[t]) : t_events[t][i].event = "token"
        /\ t_pc[t] = "finished" =>
               t_events[t] # <<>> /\ Last(t_events[t]).event = "done"
        /\ t_pc[t] = "failed" =>
               t_events[t] # <<>> /\ Last(t_events[t]).event = "error"

C2_Witness ==
    \E t1, t2 \in Turns :
        /\ t_pc[t1] = "failed" /\ Len(t_events[t1]) >= 2
        /\ t_pc[t2] = "finished" /\ Len(t_events[t2]) >= 2

RetrievalFoundNothing(t) ==
    t_useRag[t] /\ blank(t_ctx[t]) /\ t_gen[t] # "new"
\* retrieval was enabled, gave no context, and the generation step has started

\* C9: with retrieval enabled and no eligible chunk the context is absent, the
\* generation step yields the refusal string as its only fragment without calling
\* the provider, and a finished authenticated turn has persisted that refusal as
\* its assistant message, the one its done event names.
C9_GroundingRefusal ==
    \A t \in Turns :
        /\ (t_useRag[t] /\ t_gen[t] # "new" /\ Eligible(index, t_user[t]) = {}) =>
               RetrievalFoundNothing(t)
        /\ RetrievalFoundNothing(t) =>
               /\ t_content[t] = <<REFUSAL>>
               /\ t_calls[t] = 0
               /\ \A i \in 1 .. Len(t_events[t]) :
                      t_events[t][i].event = "token" => i = 1 /\ t_events[t][i].data = REFUSAL
               /\ (t_pc[t] = "finished" /\ t_user[t] # None) =>
                      \E m \in TurnMessages(t, "assistant") :
                          /\ m.content = <<REFUSAL>>
                          /\ Last(t_events[t]) = DoneEvent(m.conversation_id, m.id)

C9_Witness ==
    \E t \in Turns :
        /\ t_user[t] # None /\ t_useRag[t] /\ Eligible(index, t_user[t]) = {}
        /\ t_pc[t] = "finished"
        /\ \E m \in TurnMessages(t, "assistant") : m.content = <<REFUSAL>>

TurnLocal(t) == <<t_pc[t], t_gen[t], t_content[t], t_events[t], t_calls[t], t_ctx[t]>>

AnonymousStep(t) == t_user'[t] = None /\ TurnLocal(t)' # TurnLocal(t)
\* a step of the turn t, made for an anonymous caller

AnonymousUntouched(t) ==
    (t_user[t] = None /\ t_pc[t] # "idle") =>
        /\ t_session[t] = {} /\ t_conv[t] = None
        /\ \A m \in messages : m.turn # t
        /\ t_pc[t] \in {"persist_assistant", "finished"} => t_gen[t] = "exhausted"
        /\ t_pc[t] = "finished" =>
               t_events[t] # <<>> /\ Last(t_events[t]) = DoneEvent(None, None)

\* C10: no step of an anonymous caller's turn changes the committed conversations
\* or messages or writes into the session; the turn still retrieves and generates,
\* and when it succeeds its done event carries null ids.
C10_AnonymousNoPersistence ==
    /\ [](\A t \in Turns : AnonymousUntouched(t))
    /\ [][\A t \in Turns : AnonymousStep(t) =>
              UNCHANGED <<conversations, messages, nextConvId, nextMsgId, t_session>>]_vars

C10_Witness ==
    \E t1, t2 \in Turns :
        /\ t_user[t1] = None /\ t_pc[t1] = "finished" /\ t_useRag[t1]
        /\ t_content[t1] # <<>> /\ ~t_ctx[t1].absent
        /\ t_user[t2] # None /\ TurnMessages(t2, "assistant") # {}

\* C15: when the caller of an authenticated turn disconnects while tokens are being
\* streamed, the turn's transaction is ended by an explicit commit or rollback of
\* the orchestrator, and the turn's user message is in the committed rows.
C15_DisconnectFinalizes ==
    \A t \in Turns :
        (t_pc[t] = "closed" /\ t_user[t] # None) =>
            /\ t_tx[t] \in {"committed", "rolled_back"}
            /\ TurnMessages(t, "user") # {}

CreatedBy(t) == {c \in conversations : t_created[t] /\ c.id = t_conv[t]}
\* the committed conversation the turn t added, if it added one

\* C16: a turn that ended in error has left nothing in the committed rows: no
\* message of the turn, and no conversation the turn created.
C16_FailedTurnLeavesNothing ==
    \A t \in Turns :
        t_pc[t] = "failed" =>
            /\ TurnMessages(t, "user") = {} /\ TurnMessages(t, "assistant") = {}
            /\ CreatedBy(t) = {}

\* C17: a successful authenticated turn has issued exactly one commit, and a failed
\* turn none.
C17_OneCommitPerUnit ==
    \A t \in Turns :
        /\ (t_pc[t] = "finished" /\ t_user[t] # None) => t_commits[t] = 1
        /\ t_pc[t] = "failed" => t_commits[t] = 0

ProviderFailed(t) == \E i \in 1 .. Len(t_content[t]) : t_content[t][i] = PROVIDER_ERROR
\* the provider call or its stream raised during the turn (llm.py:105-109 is the
\* only place that makes this text)

\* C18: a turn in which the generation provider failed does not finish with done:
\* its terminal event is error, and no assistant message holding the failure text
\* is persisted.
C18_ProviderFailureIsError ==
    \A t \in Turns :
        ProviderFailed(t) =>
            /\ t_pc[t] # "finished"
            /\ \A i \in 1 .. Len(t_events[t]) : t_events[t][i].event # "done"
            /\ \A m \in TurnMessages(t, "assistant") :
                   \A i \in 1 .. Len(m.content) : m.content[i] # PROVIDER_ERROR

\* C19: when create_embedding fails on the user's query, the turn does not go on
\* to generation: it takes the except branch, ends with the error event and
\* persists no message.
C19_QueryEmbeddingFailureFatal ==
    \A t \in Turns :
        t_rag[t] = "embedding_failed" =>
            /\ t_pc[t] \in {"except", "failed"}
            /\ t_events[t] # <<>> => Last(t_events[t]).event = "error"
            /\ TurnMessages(t, "user") = {} /\ TurnMessages(t, "assistant") = {}

\* C20: when the similarity query fails, the context is absent and the turn is not
\* failed by it: it goes on to generation, no later step of the turn raises
\* because of the failed query, and a turn that ends ends with done unless a
\* step failed for a reason of its own.
C20_SearchFailureTolerated ==
    \A t \in Turns :
        t_rag[t] = "search_failed" =>
            /\ t_ctx[t] = NoContext
            /\ t_exc[t] # "InFailedSQLTransaction"
            /\ (t_pc[t] \in {"finished", "failed"} /\ t_exc[t] = "none") =>
                   Last(t_events[t]).event = "done"

Resolves(t) == t_pc[t] = "start" /\ t_pc'[t] = "persist_user"
\* the step in which _get_or_create_conversation returns a conversation to turn t

OwnedBy(convs, conversation_id, user) ==
    \E c \in convs : c.id = conversation_id /\ c.user_id = user

\* C24: an authenticated turn given the id of a conversation its caller owns uses
\* that conversation and creates none; given no id, an unknown id or the id of
\* another user's conversation it creates one conversation, owned by the caller and
\* titled with the placeholder, and uses it.  No message of a turn, stored or
\* flushed, is in a conversation of another user, and a conversation changes only
\* by the final step of a turn of its owner.
C24_ConversationResolution ==
    /\ [](\A t \in Turns :
              /\ t_conv[t] # None => OwnedBy(conversations, t_conv[t], t_user[t])
              /\ \A m \in messages \cup t_session[t] :
                     m.turn = t => /\ m.conversation_id = t_conv[t]
                                   /\ OwnedBy(conversations, t_conv[t], t_user[t]))
    /\ [][\A t \in Turns :
              Resolves(t) =>
                  IF OwnedBy(conversations, t_convArg[t], t_user[t])
                  THEN /\ t_conv'[t] = t_convArg[t]
                       /\ conversations' = conversations
                  ELSE /\ t_conv'[t] \notin {c.id : c \in conversations}
                       /\ conversations' = conversations \cup
                              {[id |-> t_conv'[t], user_id |-> t_user[t],
                                title |-> PLACEHOLDER_TITLE, updated |-> 0]}]_vars
    /\ [][\A c \in conversations :
              c \notin conversations' =>
                  \E t \in Turns : /\ t_pc[t] = "persist_assistant"
                                    /\ t_pc'[t] = "finished"
                                    /\ t_conv[t] = c.id /\ t_user[t] = c.user_id]_vars

C24_Witness ==
    \E t, u \in Turns :
        /\ t_user[t] \in Users /\ t_user[u] \in Users /\ t_user[t] # t_user[u]
        /\ t_convArg[t] = 1 /\ OwnedBy(conversations, 1, t_user[u])
        /\ t_pc[t] = "finished" /\ t_created[t] /\ t_conv[t] = 2
        /\ OwnedBy(conversations, 2, t_user[t])
        /\ \E m \in messages : m.turn = t /\ m.role = "assistant" /\ m.conversation_id = 2
        /\ \A m \in messages : m.conversation_id = 1 => m.turn = u

=============================================================================
